---- MODULE Spec2Model ----
(***************************************************************************)
(* Detection-and-alerting pipeline of the API degradation detection        *)
(* system: the Alert Manager (src/src/alert_manager.py) and the Correlator *)
(* (src/src/correlator.py).                                                *)
(*                                                                         *)
(* Units.  Times are whole seconds.  An error rate (current_value of an    *)
(* error_rate signal) is kept in hundredths (0.05 is 5); a deviation_ratio *)
(* is kept in tenths (2.0 is 20).                                          *)
(***************************************************************************)
EXTENDS Integers, Sequences, FiniteSets, TLC

(***************************************************************************)
(* Configuration (src/src/config.py, defaults).                            *)
(***************************************************************************)
ALERT_COOLDOWN_INFO == 3600
ALERT_COOLDOWN_WARN == 1800
ALERT_COOLDOWN_CRITICAL == 300
ALERT_DEDUP_WINDOW == 600
ALERT_CHANNELS_INFO == <<"console">>
ALERT_CHANNELS_WARN == <<"console", "slack">>
ALERT_CHANNELS_CRITICAL == <<"console", "slack", "email">>


\* variant: the cooldown table with the INFO and CRITICAL entries exchanged
CooldownOf_Swapped(severity) ==
    CASE severity = "INFO" -> ALERT_COOLDOWN_CRITICAL
      [] severity = "WARN" -> ALERT_COOLDOWN_WARN
      [] severity = "CRITICAL" -> ALERT_COOLDOWN_INFO
      [] OTHER -> ALERT_COOLDOWN_INFO

\* self._cooldowns.get(severity, ALERT_COOLDOWN_INFO)
CooldownOf(severity) ==
    CASE severity = "INFO" -> ALERT_COOLDOWN_INFO
      [] severity = "WARN" -> ALERT_COOLDOWN_WARN
      [] severity = "CRITICAL" -> ALERT_COOLDOWN_CRITICAL
      [] OTHER -> ALERT_COOLDOWN_INFO

\* variant: a severity outside the table gets the CRITICAL channels
ChannelsOf_UnknownEverywhere(severity) ==
    CASE severity = "INFO" -> ALERT_CHANNELS_INFO
      [] severity = "WARN" -> ALERT_CHANNELS_WARN
      [] severity = "CRITICAL" -> ALERT_CHANNELS_CRITICAL
      [] OTHER -> ALERT_CHANNELS_CRITICAL

\* self._channels.get(severity, ['console'])
ChannelsOf(severity) ==
    CASE severity = "INFO" -> ALERT_CHANNELS_INFO
      [] severity = "WARN" -> ALERT_CHANNELS_WARN
      [] severity = "CRITICAL" -> ALERT_CHANNELS_CRITICAL
      [] OTHER -> <<"console">>

(***************************************************************************)
(* Bounds of the model.                                                    *)
(***************************************************************************)
\* most keys _recent_alerts holds at a time
MaxTracked == 2
MaxSignals == 3
\* most anomalies passed to one correlate call
MaxAnomalies == 3
\* the instants at which the clock is read: every threshold (300, 600, 1800,
\* 3600) is the distance of one of them from 3600
TimePoints == {0, 3600, 3900, 4200, 5400, 7200}
Endpoints == {"/a", "/b"}

\* the value of alert.get('severity') when the key is not in the dict
NoSeverity == "<absent>"

(***************************************************************************)
(* classify_severity                                                       *)
(***************************************************************************)
ERROR_SPIKE_THRESHOLD == 5
LATENCY_SPIKE_THRESHOLD == 20
MULTIPLE_SIGNALS == 3

SeqAny(s, P(_)) == \E i \in 1..Len(s) : P(s[i])

HasCriticalSignal(signals) == SeqAny(signals, LAMBDA s : s.severity = "HIGH")
HasErrorSpike(signals) ==
    SeqAny(signals, LAMBDA s : s.metric_name = "error_rate"
                               /\ s.current_value > ERROR_SPIKE_THRESHOLD)
\* variant: a deviation_ratio of exactly 2.0 counts as a latency spike
HasLatencySpike_Inclusive(signals) ==
    SeqAny(signals, LAMBDA s : s.metric_name \in {"avg_latency", "p95_latency"}
                               /\ s.deviation_ratio >= LATENCY_SPIKE_THRESHOLD)

HasLatencySpike(signals) ==
    SeqAny(signals, LAMBDA s : s.metric_name \in {"avg_latency", "p95_latency"}
                               /\ s.deviation_ratio > LATENCY_SPIKE_THRESHOLD)

classify_severity(alert) ==
    LET signals == alert.signals IN
    IF signals = <<>> THEN "INFO"
    ELSE IF HasCriticalSignal(signals) \/ Len(signals) >= MULTIPLE_SIGNALS
            \/ (HasErrorSpike(signals) /\ HasLatencySpike(signals))
         THEN "CRITICAL"
    ELSE IF HasErrorSpike(signals) \/ HasLatencySpike(signals) \/ Len(signals) >= 2
         THEN "WARN"
    ELSE "INFO"

(***************************************************************************)
(* State.                                                                  *)
(*   now            the wall clock read by time.time()                     *)
(*   recent_alerts  AlertManager._recent_alerts: key -> last alert time    *)
(*   last           what the process_alert call that is returning did      *)
(*                  (NoCall while no call is in progress)                  *)
(***************************************************************************)
VARIABLES now, recent_alerts, last

amVars == <<now, recent_alerts, last>>

(***************************************************************************)
(* State of a correlate call.                                              *)
(*   anomalies   the list passed to correlate                              *)
(*   alerts      the list correlate returned                               *)
(*   correlated  correlate has returned                                    *)
(***************************************************************************)
VARIABLES anomalies, alerts, correlated

corrVars == <<anomalies, alerts, correlated>>

(***************************************************************************)
(* State of the threads that call process_alert concurrently.              *)
(*   pc          where each thread is in process_alert                     *)
(*   frame       the local variables of each thread's call                 *)
(*   lock_owner  the thread that holds AlertManager._lock (NoThread: free) *)
(***************************************************************************)
VARIABLES pc, frame, lock_owner

concVars == <<pc, frame, lock_owner>>

Threads == {"t1", "t2"}
NoThread == "none"

(***************************************************************************)
(* State of the baseline store, the metrics store and the detector.        *)
(*   baselines   InMemoryBaselineStorage._baselines, by <<endpoint, metric>>*)
(*   observed    the values given to update_baseline, by key, in order     *)
(*   metrics     InMemoryMetricsStorage._metrics of the default store      *)
(*   detected    the last call of detect: its argument and what it returned*)
(***************************************************************************)
VARIABLES baselines, observed, metrics, detected

detVars == <<baselines, observed, metrics, detected>>

(***************************************************************************)
(* State of the aggregator and of the stores with a choice of backend.     *)
(*   backend     the backend of the store: "memory" or "sqlite"            *)
(*   raw_logs    the log records the aggregator reads, in arrival order    *)
(*   aggregated  the last aggregation call: its arguments and its result,  *)
(*               and the aggregates table that compute_aggregates writes   *)
(*   alert_rows  the alert store: the stored alerts with their keys, in    *)
(*               the order of insertion                                    *)
(*   stored      the last call of the alert store, and the alert that was  *)
(*               given for each id returned so far                         *)
(***************************************************************************)
VARIABLES backend, raw_logs, aggregated, alert_rows, stored

auxVars == <<backend, raw_logs, aggregated, alert_rows, stored>>

\* what the actions of one component leave alone
NotAm == <<corrVars, concVars, detVars, auxVars>>
NotCorr == <<amVars, concVars, detVars, auxVars>>
NotConc == <<amVars, corrVars, detVars, auxVars>>
NotDet == <<amVars, corrVars, concVars, auxVars>>

\* f"{endpoint}_{severity}": the pieces in order (no piece of the model holds "_")
AlertKey(alert) == <<alert.endpoint, "_", alert.severity>>

\* self._recent_alerts.get(key, 0)
RecentGet(recent, key) == IF key \in DOMAIN recent THEN recent[key] ELSE 0

\* variant: the dedup check compares with the CRITICAL cooldown
should_deduplicate_WrongWindow(recent, alert, t) ==
    t - RecentGet(recent, AlertKey(alert)) < ALERT_COOLDOWN_CRITICAL

should_deduplicate(recent, alert, t) ==
    t - RecentGet(recent, AlertKey(alert)) < ALERT_DEDUP_WINDOW

is_in_cooldown(recent, alert, t) ==
    t - RecentGet(recent, AlertKey(alert)) < CooldownOf(alert.severity)

\* self._recent_alerts[key] = time.time()
update_alert_tracking(recent, alert, t) ==
    LET key == AlertKey(alert) IN
    [k \in DOMAIN recent \cup {key} |-> IF k = key THEN t ELSE recent[k]]

(***************************************************************************)
(* Channels.  An outcome is what the environment does when the channel is  *)
(* used: the console print succeeds ("ok") or raises ("raise"); Slack is   *)
(* not configured ("unconfigured": no request is made), answers 200        *)
(* ("ok"), answers another status ("fail") or the request raises           *)
(* ("raise"); email likewise.  Each _send_* returns a boolean.             *)
(***************************************************************************)
ConsoleOutcomes == {"ok", "raise"}
RemoteOutcomes == {"unconfigured", "ok", "fail", "raise"}
StoreOutcomes == {"ok", "raise"}

send_console(outcome) == outcome = "ok"
send_slack(outcome) == outcome = "ok"
send_email(outcome) == outcome = "ok"

\* number of requests a _send_slack/_send_email call makes
RemoteRequests(outcome) == IF outcome \in {"ok", "fail", "raise"} THEN 1 ELSE 0

\* variant: success starts as True
NoRoute_Optimistic == [success |-> TRUE, console |-> 0, slack |-> 0, email |-> 0,
                       slack_requests |-> 0, email_requests |-> 0]

NoRoute == [success |-> FALSE, console |-> 0, slack |-> 0, email |-> 0,
            slack_requests |-> 0, email_requests |-> 0]

\* variant: a failed Slack or email send clears success
RECURSIVE RouteFrom_AllMustSucceed(_, _, _, _, _, _)
RouteFrom_AllMustSucceed(channels, i, acc, console_out, slack_out, email_out) ==
    IF i > Len(channels) THEN acc
    ELSE LET channel == channels[i]
             next ==
               CASE channel = "console" ->
                      [acc EXCEPT !.console = @ + 1,
                                  !.success = IF send_console(console_out) THEN TRUE ELSE @]
                 [] channel = "slack" ->
                      [acc EXCEPT !.slack = @ + 1,
                                  !.slack_requests = @ + RemoteRequests(slack_out),
                                  !.success = IF send_slack(slack_out) THEN @ ELSE FALSE]
                 [] channel = "email" ->
                      [acc EXCEPT !.email = @ + 1,
                                  !.email_requests = @ + RemoteRequests(email_out),
                                  !.success = IF send_email(email_out) THEN @ ELSE FALSE]
                 [] OTHER -> acc
         IN RouteFrom_AllMustSucceed(channels, i + 1, next, console_out, slack_out, email_out)

\* the loop of _route_alert over channels[i..], acc the result so far
RECURSIVE RouteFrom(_, _, _, _, _, _)
RouteFrom(channels, i, acc, console_out, slack_out, email_out) ==
    IF i > Len(channels) THEN acc
    ELSE LET channel == channels[i]
             next ==
               CASE channel = "console" ->
                      [acc EXCEPT !.console = @ + 1,
                                  !.success = IF send_console(console_out) THEN TRUE ELSE @]
                 [] channel = "slack" ->
                      [acc EXCEPT !.slack = @ + 1,
                                  !.slack_requests = @ + RemoteRequests(slack_out)]
                 [] channel = "email" ->
                      [acc EXCEPT !.email = @ + 1,
                                  !.email_requests = @ + RemoteRequests(email_out)]
                 [] OTHER -> acc
         IN RouteFrom(channels, i + 1, next, console_out, slack_out, email_out)

route_alert(alert, console_out, slack_out, email_out) ==
    RouteFrom(ChannelsOf(alert.severity), 1, NoRoute, console_out, slack_out, email_out)

(***************************************************************************)
(* process_alert as one call on a single thread.                           *)
(***************************************************************************)
\* 'severity' not in alert  =>  alert['severity'] = classify_severity(alert)
EnsureSeverity(a) ==
    IF a.severity = NoSeverity THEN [a EXCEPT !.severity = classify_severity(a)] ELSE a

\* what a call has done when it starts: nothing yet
StartResult(a) ==
    LET alert == EnsureSeverity(a) IN
    [outcome |-> "dropped", reason |-> "none", alert_in |-> a, alert |-> alert,
     key |-> AlertKey(alert), time |-> now, returned |-> FALSE, raised |-> FALSE,
     stored |-> FALSE, route |-> NoRoute,
     console_out |-> "none", slack_out |-> "none", email_out |-> "none",
     store_out |-> "none",
     recent_before |-> recent_alerts,
     recent_after |-> recent_alerts]

\* variant: a dropped candidate refreshes the tracking of its key
DropResult_Tracks(base, reason) ==
    [base EXCEPT !.reason = reason,
                 !.recent_after = update_alert_tracking(base.recent_before, base.alert, base.time)]

\* the early 'return False' of process_alert
DropResult(base, reason) == [base EXCEPT !.reason = reason]

\* variant: no try/except around store_alert, its exception leaves process_alert
AcceptResult_StoreRaises(base, console_out, slack_out, email_out, store_out) ==
    IF store_out = "raise"
      THEN [base EXCEPT !.outcome = "routed", !.store_out = store_out, !.raised = TRUE]
      ELSE LET route == route_alert(base.alert, console_out, slack_out, email_out) IN
           [base EXCEPT !.outcome = "routed",
                        !.stored = TRUE,
                        !.store_out = store_out,
                        !.route = route,
                        !.console_out = console_out,
                        !.slack_out = slack_out,
                        !.email_out = email_out,
                        !.returned = route.success,
                        !.recent_after = update_alert_tracking(base.recent_before, base.alert, base.time)]

\* process_alert from 'Store alert' on: store, route, update tracking
AcceptResult(base, console_out, slack_out, email_out, store_out) ==
    LET route == route_alert(base.alert, console_out, slack_out, email_out) IN
    [base EXCEPT !.outcome = "routed",
                 !.stored = (store_out = "ok"),
                 !.store_out = store_out,
                 !.route = route,
                 !.console_out = console_out,
                 !.slack_out = slack_out,
                 !.email_out = email_out,
                 !.returned = route.success,
                 !.recent_after = update_alert_tracking(base.recent_before, base.alert, base.time)]

ProcessResult(a, console_out, slack_out, email_out, store_out) ==
    LET base == StartResult(a) IN
    IF should_deduplicate(recent_alerts, base.alert, now)
      THEN DropResult(base, "dedup")
    ELSE IF is_in_cooldown(recent_alerts, base.alert, now)
      THEN DropResult(base, "cooldown")
    ELSE AcceptResult(base, console_out, slack_out, email_out, store_out)

\* the candidate passes both suppression checks at the current state
Accepted(a) ==
    LET alert == EnsureSeverity(a) IN
    /\ ~should_deduplicate(recent_alerts, alert, now)
    /\ ~is_in_cooldown(recent_alerts, alert, now)

InSeq(x, s) == \E i \in 1..Len(s) : s[i] = x

\* the outcomes a call can meet: one value for an outcome it does not consume
OutcomesOf(channel, a, all) ==
    IF Accepted(a) /\ InSeq(channel, ChannelsOf(EnsureSeverity(a).severity))
      THEN all ELSE {"none"}
StoreOutcomesOf(a) == IF Accepted(a) THEN StoreOutcomes ELSE {"none"}

process_alert(a, console_out, slack_out, email_out, store_out) ==
    LET r == ProcessResult(a, console_out, slack_out, email_out, store_out) IN
    /\ last' = r
    /\ recent_alerts' = r.recent_after
    /\ UNCHANGED <<now, NotAm>>

(***************************************************************************)
(* Correlator (src/src/correlator.py).                                     *)
(***************************************************************************)

\* the strings the model compares, in Python's (code point) order
StringsInOrder ==
    <<"", "/a", "/b", "2026-02-02T15:00:00Z", "2026-02-02T15:01:00Z",
      "avg_latency", "error_rate", "p95_latency", "request_volume">>
StrRank(str) == CHOOSE i \in 1..Len(StringsInOrder) : StringsInOrder[i] = str

\* an anomaly without window_seconds (no int value) and one without drift_context
NoWindowSeconds == -1
NoDriftContext == [present |-> FALSE, is_sustained_degradation |-> FALSE]
DEFAULT_WINDOW_SECONDS == 60

\* the decimal digits of n >= 0 as character codes ("0" is 48)
RECURSIVE DigitChars(_)
DigitChars(n) == IF n < 10 THEN <<48 + n>> ELSE Append(DigitChars(n \div 10), 48 + (n % 10))

\* str(deviation_ratio) of a float with one decimal, given in tenths, as
\* character codes ("-" is 45, "." is 46)
StrOfRatio(d) ==
    LET m == IF d < 0 THEN -d ELSE d
        body == DigitChars(m \div 10) \o <<46, 48 + (m % 10)>>
    IN IF d < 0 THEN <<45>> \o body ELSE body

\* s < t for two strings given as character codes
RECURSIVE CharsLess(_, _)
CharsLess(s, t) ==
    IF t = <<>> THEN FALSE
    ELSE IF s = <<>> THEN TRUE
    ELSE IF s[1] # t[1] THEN s[1] < t[1]
    ELSE CharsLess(Tail(s), Tail(t))

\* the sort key (metric_name, str(deviation_ratio)) of a < that of b
SignalKeyLess(a, b) ==
    \/ StrRank(a.metric_name) < StrRank(b.metric_name)
    \/ /\ a.metric_name = b.metric_name
       /\ CharsLess(StrOfRatio(a.deviation_ratio), StrOfRatio(b.deviation_ratio))

\* x put into the sorted list s after every element that is not greater
RECURSIVE InsertSignal(_, _)
InsertSignal(s, x) ==
    IF s = <<>> THEN <<x>>
    ELSE IF SignalKeyLess(x, s[1]) THEN <<x>> \o s
    ELSE <<s[1]>> \o InsertSignal(Tail(s), x)

\* variant: the sort drops a signal equal to one already placed
RECURSIVE SortSignalsFrom_Dedup(_, _, _)
SortSignalsFrom_Dedup(s, i, acc) ==
    IF i > Len(s) THEN acc
    ELSE SortSignalsFrom_Dedup(s, i + 1,
            IF \E j \in 1..Len(acc) : acc[j] = s[i] THEN acc
            ELSE InsertSignal(acc, s[i]))

\* sorted(s, key=...), which is stable: s[i..] put one by one into acc
RECURSIVE SortSignalsFrom(_, _, _)
SortSignalsFrom(s, i, acc) ==
    IF i > Len(s) THEN acc ELSE SortSignalsFrom(s, i + 1, InsertSignal(acc, s[i]))

\* norm_signals = sorted(signals, key=(metric_name, str(deviation_ratio)))
SortSignals(signals) == SortSignalsFrom(signals, 1, <<>>)

\* 'if not endpoint or not window: continue'
WellFormed(a) == a.endpoint # "" /\ a.window_start # ""

GroupKey(a) == <<a.endpoint, a.window_start>>

\* groups.keys()
GroupKeys(input) == {GroupKey(input[i]) : i \in {j \in 1..Len(input) : WellFormed(input[j])}}

\* groups[key]: the well-formed anomalies of the key, in input order
GroupOf(input, key) == SelectSeq(input, LAMBDA a : WellFormed(a) /\ GroupKey(a) = key)

KeyLess(k1, k2) ==
    \/ StrRank(k1[1]) < StrRank(k2[1])
    \/ k1[1] = k2[1] /\ StrRank(k1[2]) < StrRank(k2[2])

\* sorted(groups.keys(), key=lambda t: (t[0], t[1]))
RECURSIVE SortedKeys(_)
SortedKeys(keys) ==
    IF keys = {} THEN <<>>
    ELSE LET k == CHOOSE x \in keys : \A y \in keys \ {x} : KeyLess(x, y)
         IN <<k>> \o SortedKeys(keys \ {k})

HasLatency(signals) == SeqAny(signals, LAMBDA s : s.metric_name \in {"avg_latency", "p95_latency"})
HasError(signals) == SeqAny(signals, LAMBDA s : s.metric_name = "error_rate")
HasTraffic(signals) == SeqAny(signals, LAMBDA s : s.metric_name = "request_volume")

Suppressed == "<suppressed>"

\* variant: a group with traffic anomalies only is emitted with severity LOW
GroupSeverity_TrafficLow(signals) ==
    IF HasLatency(signals) /\ HasError(signals) THEN "HIGH"
    ELSE IF HasLatency(signals) \/ HasError(signals) THEN "MEDIUM"
    ELSE IF HasTraffic(signals) THEN "LOW"
    ELSE Suppressed

\* the severity of a group, Suppressed for 'continue'
GroupSeverity(signals) ==
    IF HasLatency(signals) /\ HasError(signals) THEN "HIGH"
    ELSE IF HasLatency(signals) \/ HasError(signals) THEN "MEDIUM"
    ELSE Suppressed

HasSustainedDegradation(signals) ==
    SeqAny(signals, LAMBDA s : s.drift_context.is_sustained_degradation)

\* the window_seconds of the first signal that has an int one, else 60
RECURSIVE WindowSecondsFrom(_, _)
WindowSecondsFrom(signals, i) ==
    IF i > Len(signals) THEN DEFAULT_WINDOW_SECONDS
    ELSE IF signals[i].window_seconds # NoWindowSeconds THEN signals[i].window_seconds
    ELSE WindowSecondsFrom(signals, i + 1)

\* _parse_iso_z and _iso_z on the instants of the model, as seconds of the day
IsoInstants ==
    <<[iso |-> "2026-02-02T15:00:00Z", at |-> 54000],
      [iso |-> "2026-02-02T15:01:00Z", at |-> 54060],
      [iso |-> "2026-02-02T15:02:00Z", at |-> 54120],
      [iso |-> "2026-02-02T15:05:00Z", at |-> 54300],
      [iso |-> "2026-02-02T15:06:00Z", at |-> 54360]>>
parse_iso_z(str) == (CHOOSE i \in 1..Len(IsoInstants) : IsoInstants[i].iso = str)
iso_z(at) == IsoInstants[CHOOSE i \in 1..Len(IsoInstants) : IsoInstants[i].at = at].iso

\* window_end, "" when window_start does not parse
WindowEnd(window_start, window_seconds) ==
    IF \E i \in 1..Len(IsoInstants) : IsoInstants[i].iso = window_start
      THEN iso_z(IsoInstants[parse_iso_z(window_start)].at + window_seconds)
      ELSE ""

\* the drift_context of signals[0], {} (nothing present) when it has none
FirstDriftContext(signals) ==
    IF signals # <<>> /\ signals[1].drift_context.present
      THEN signals[1].drift_context
      ELSE NoDriftContext

AlertOf(key, signals) ==
    [endpoint |-> key[1],
     severity |-> GroupSeverity(signals),
     signals |-> SortSignals(signals),
     window_start |-> key[2],
     window_end |-> WindowEnd(key[2], WindowSecondsFrom(signals, 1)),
     drift_context |-> FirstDriftContext(signals),
     has_sustained_degradation |-> HasSustainedDegradation(signals),
     signal_types |-> [has_latency |-> HasLatency(signals),
                       has_error |-> HasError(signals),
                       has_traffic |-> HasTraffic(signals)]]

\* the loop over the sorted keys
RECURSIVE CorrelateFrom(_, _, _, _)
CorrelateFrom(input, keys, i, acc) ==
    IF i > Len(keys) THEN acc
    ELSE LET signals == GroupOf(input, keys[i])
         IN CorrelateFrom(input, keys, i + 1,
                IF GroupSeverity(signals) = Suppressed THEN acc
                ELSE Append(acc, AlertOf(keys[i], signals)))

correlate(input) ==
    IF input = <<>> THEN <<>>
    ELSE CorrelateFrom(input, SortedKeys(GroupKeys(input)), 1, <<>>)

(***************************************************************************)
(* Numbers.  The floats of the program are modelled as the exact rationals *)
(* [n |-> numerator, d |-> denominator], d > 0, in lowest terms; the       *)
(* rounding of float arithmetic is not modelled.                           *)
(***************************************************************************)
RECURSIVE Gcd(_, _)
Gcd(a, b) == IF b = 0 THEN a ELSE Gcd(b, a % b)

Abs(x) == IF x < 0 THEN -x ELSE x

Rat(n, d) ==
    LET g == Gcd(Abs(n), Abs(d))
        s == IF d < 0 THEN -1 ELSE 1
    IN [n |-> s * (n \div g), d |-> s * (d \div g)]

RInt(i) == [n |-> i, d |-> 1]
RNeg(a) == [n |-> -a.n, d |-> a.d]
RAbs(a) == [n |-> Abs(a.n), d |-> a.d]

RAdd(a, b) ==
    LET g == Gcd(a.d, b.d)
    IN Rat(a.n * (b.d \div g) + b.n * (a.d \div g), (a.d \div g) * b.d)

RSub(a, b) == RAdd(a, RNeg(b))

RMul(a, b) ==
    LET g1 == Gcd(Abs(a.n), b.d)
        g2 == Gcd(Abs(b.n), a.d)
    IN Rat((a.n \div g1) * (b.n \div g2), (a.d \div g2) * (b.d \div g1))

\* a / b for b # 0
RDiv(a, b) == RMul(a, Rat(b.d, b.n))

RSq(a) == RMul(a, a)

\* a / b < c / d for b, d > 0, by the integer parts and then the remainders
\* (no product is formed)
RECURSIVE FracLess(_, _, _, _)
FracLess(a, b, c, d) ==
    LET q1 == a \div b
        q2 == c \div d
        r1 == a % b
        r2 == c % d
    IN IF q1 # q2 THEN q1 < q2
       ELSE IF r2 = 0 THEN FALSE
       ELSE IF r1 = 0 THEN TRUE
       ELSE FracLess(d, r2, b, r1)

RLess(a, b) == FracLess(a.n, a.d, b.n, b.d)

RLeq(a, b) == ~RLess(b, a)

RMin(a, b) == IF RLess(b, a) THEN b ELSE a

(***************************************************************************)
(* The baseline store (InMemoryBaselineStorage, the default backend).  A   *)
(* baseline holds std by its square, std_sq = std ** 2, which is what      *)
(* update_baseline and the detector's comparisons use; std is its          *)
(* non-negative root.                                                      *)
(***************************************************************************)
ALPHA == Rat(1, 10)

BaselineKey(endpoint, metric_name) == <<endpoint, metric_name>>

\* self._baselines.get(endpoint, {}).get(metric_name) is not None
HasBaseline(store, key) == key \in DOMAIN store

\* the first observation of a key
InitialBaseline(new_value, timestamp) ==
    [mean |-> new_value, std_sq |-> RInt(0), count |-> 1, last_updated |-> timestamp,
     ewma |-> new_value, ewma_variance |-> RInt(0)]

\* variant: the running mean divides by the count before the observation
NextBaseline_OldCount(baseline, new_value, timestamp) ==
    LET old_count == baseline.count
        old_mean == baseline.mean
        new_count == old_count + 1
        new_mean == RAdd(old_mean, RDiv(RSub(new_value, old_mean), RInt(old_count)))
        new_variance ==
            RAdd(baseline.std_sq,
                 RDiv(RMul(RSub(new_value, old_mean), RSub(new_value, new_mean)),
                      RInt(new_count)))
        new_std_sq ==
            IF old_count > 1
              THEN (IF RLess(RInt(0), new_variance) THEN new_variance ELSE RInt(0))
              ELSE RSq(RAbs(RSub(new_value, old_mean)))
        old_ewma == baseline.ewma
        new_ewma == RAdd(RMul(ALPHA, new_value), RMul(RSub(RInt(1), ALPHA), old_ewma))
        ewma_error == RSub(new_value, old_ewma)
        new_ewma_var == RMul(RSub(RInt(1), ALPHA),
                             RAdd(baseline.ewma_variance, RMul(ALPHA, RSq(ewma_error))))
    IN [mean |-> new_mean, std_sq |-> new_std_sq, count |-> new_count,
        last_updated |-> timestamp, ewma |-> new_ewma, ewma_variance |-> new_ewma_var]

\* a later observation: the running mean, the variance, the EWMA and its
\* variance
NextBaseline(baseline, new_value, timestamp) ==
    LET old_count == baseline.count
        old_mean == baseline.mean
        new_count == old_count + 1
        new_mean == RAdd(old_mean, RDiv(RSub(new_value, old_mean), RInt(new_count)))
        new_variance ==
            RAdd(baseline.std_sq,
                 RDiv(RMul(RSub(new_value, old_mean), RSub(new_value, new_mean)),
                      RInt(new_count)))
        new_std_sq ==
            IF old_count > 1
              THEN (IF RLess(RInt(0), new_variance) THEN new_variance ELSE RInt(0))
              ELSE RSq(RAbs(RSub(new_value, old_mean)))
        old_ewma == baseline.ewma
        new_ewma == RAdd(RMul(ALPHA, new_value), RMul(RSub(RInt(1), ALPHA), old_ewma))
        ewma_error == RSub(new_value, old_ewma)
        new_ewma_var == RMul(RSub(RInt(1), ALPHA),
                             RAdd(baseline.ewma_variance, RMul(ALPHA, RSq(ewma_error))))
    IN [mean |-> new_mean, std_sq |-> new_std_sq, count |-> new_count,
        last_updated |-> timestamp, ewma |-> new_ewma, ewma_variance |-> new_ewma_var]

\* the map with key set to value
Put(map, key, value) ==
    [k \in DOMAIN map \cup {key} |-> IF k = key THEN value ELSE map[k]]

\* variant: an update of a known key starts the baseline again
update_baseline_Reset(store, key, new_value, timestamp) ==
    Put(store, key, InitialBaseline(new_value, timestamp))

\* update_baseline(endpoint, metric_name, new_value, timestamp): the store after it
update_baseline(store, key, new_value, timestamp) ==
    IF ~HasBaseline(store, key)
      THEN Put(store, key, InitialBaseline(new_value, timestamp))
      ELSE Put(store, key, NextBaseline(store[key], new_value, timestamp))

(***************************************************************************)
(* The detector: detect_anomalies.                                         *)
(***************************************************************************)
MIN_BASELINE_COUNT == 10
Z_ROLLING_THRESHOLD == Rat(2, 1)
Z_EWMA_THRESHOLD == Rat(3, 2)
Z_HIGH == Rat(3, 1)
Z_MEDIUM == Rat(2, 1)
ROUND_DIGITS == 10000

metric_names == <<"avg_latency", "p95_latency", "error_rate">>

\* round(x) of Python 3: to the nearest integer, a tie to the even one
RoundInt(x) ==
    LET f == x.n \div x.d
        rem == x.n - f * x.d
    IN IF 2 * rem < x.d THEN f
       ELSE IF 2 * rem > x.d THEN f + 1
       ELSE IF f % 2 = 0 THEN f ELSE f + 1

\* round(x, 4)
Round4(x) == Rat(RoundInt(RMul(x, RInt(ROUND_DIGITS))), ROUND_DIGITS)

\* compute_baselines: what the detector reads of the stored baselines of the
\* endpoints of current_metrics; ewma_std is ewma_variance ** 0.5, held by
\* its square
compute_baselines(store, current_metrics) ==
    LET endpoints == {current_metrics[i].endpoint : i \in 1..Len(current_metrics)}
        keys == {k \in DOMAIN store : k[1] \in endpoints}
    IN [k \in keys |->
          [mean |-> store[k].mean, std_sq |-> store[k].std_sq, ewma |-> store[k].ewma,
           ewma_std_sq |-> store[k].ewma_variance, count |-> store[k].count]]

\* 'baseline is None or baseline.get("count", 0) < 10'
InsufficientBaseline(baseline_metrics, key) ==
    \/ key \notin DOMAIN baseline_metrics
    \/ baseline_metrics[key].count < MIN_BASELINE_COUNT

\* z ** 2 for z = (v - center) / spread if spread > 0 else 0
ZSquared(v, center, spread_sq) ==
    IF RLess(RInt(0), spread_sq) THEN RDiv(RSq(RSub(v, center)), spread_sq) ELSE RInt(0)

\* abs(z) >= threshold, on the squares
AbsAtLeast(z_sq, threshold) == RLeq(RSq(threshold), z_sq)

\* max(abs(z_rolling), abs(z_ewma)) ** 2
ZScoreSquared(v, b) ==
    LET zr == ZSquared(v, b.mean, b.std_sq)
        ze == ZSquared(v, b.ewma, b.ewma_std_sq)
    IN IF RLess(zr, ze) THEN ze ELSE zr

\* variant: a z-score above 1.0 is MEDIUM
severity_from_z_Low(z_sq) ==
    IF AbsAtLeast(z_sq, Z_HIGH) THEN "HIGH"
    ELSE IF AbsAtLeast(z_sq, RInt(1)) THEN "MEDIUM"
    ELSE "LOW"

\* _severity_from_z, on z ** 2
severity_from_z(z_sq) ==
    IF AbsAtLeast(z_sq, Z_HIGH) THEN "HIGH"
    ELSE IF AbsAtLeast(z_sq, Z_MEDIUM) THEN "MEDIUM"
    ELSE "LOW"

\* variant: only the rolling z-score decides
is_anomaly_RollingOnly(v, b) ==
    AbsAtLeast(ZSquared(v, b.mean, b.std_sq), Z_ROLLING_THRESHOLD)

\* is_anomaly = abs(z_rolling) >= 2.0 or abs(z_ewma) >= 1.5
is_anomaly(v, b) ==
    \/ AbsAtLeast(ZSquared(v, b.mean, b.std_sq), Z_ROLLING_THRESHOLD)
    \/ AbsAtLeast(ZSquared(v, b.ewma, b.ewma_std_sq), Z_EWMA_THRESHOLD)

\* (current_num - rolling_mean) / (abs(rolling_mean) if rolling_mean != 0 else 1.0)
deviation_ratio(v, rolling_mean) ==
    RDiv(RSub(v, rolling_mean), IF rolling_mean.n # 0 THEN RAbs(rolling_mean) ELSE RInt(1))

\* the anomaly dict; z_score, which is round(z, 2) and is read by no other
\* part of the pipeline, is left out
AnomalyDict(endpoint, window_start, m, v, b) ==
    [endpoint |-> endpoint,
     window_start |-> window_start,
     metric_name |-> m,
     baseline_value |-> b.mean,
     current_value |-> v,
     ewma_value |-> b.ewma,
     deviation_ratio |-> Round4(deviation_ratio(v, b.mean)),
     severity |-> severity_from_z(ZScoreSquared(v, b))]

\* variant: a metric without a baseline of 10 observations is judged all the same
MetricAnomalies_NoMinimum(entry, m, baseline_metrics) ==
    LET key == BaselineKey(entry.endpoint, m) IN
    IF m \notin DOMAIN entry.metrics THEN <<>>
    ELSE IF key \notin DOMAIN baseline_metrics THEN <<>>
    ELSE IF is_anomaly(entry.metrics[m], baseline_metrics[key])
      THEN <<AnomalyDict(entry.endpoint, entry.window_start, m, entry.metrics[m],
                         baseline_metrics[key])>>
      ELSE <<>>

\* the body of the loop over metric_names: the anomaly of one metric of one
\* window, if any
MetricAnomalies(entry, m, baseline_metrics) ==
    LET key == BaselineKey(entry.endpoint, m) IN
    IF m \notin DOMAIN entry.metrics THEN <<>>
    ELSE IF InsufficientBaseline(baseline_metrics, key) THEN <<>>
    ELSE IF is_anomaly(entry.metrics[m], baseline_metrics[key])
      THEN <<AnomalyDict(entry.endpoint, entry.window_start, m, entry.metrics[m],
                         baseline_metrics[key])>>
      ELSE <<>>

\* the loops over the endpoints, their windows and the metric names
RECURSIVE DetectFrom(_, _, _, _, _)
DetectFrom(current_metrics, baseline_metrics, i, j, acc) ==
    IF i > Len(current_metrics) THEN acc
    ELSE IF j > Len(metric_names) THEN DetectFrom(current_metrics, baseline_metrics, i + 1, 1, acc)
    ELSE DetectFrom(current_metrics, baseline_metrics, i, j + 1,
                    acc \o MetricAnomalies(current_metrics[i], metric_names[j], baseline_metrics))

detect_anomalies(current_metrics, baseline_metrics) ==
    DetectFrom(current_metrics, baseline_metrics, 1, 1, <<>>)

(***************************************************************************)
(* The detector: drift confidence scores and sustained degradation.        *)
(***************************************************************************)
MIN_HISTORY == 3
RECENT_VALUES == 10
LATENCY_DRIFT_THRESHOLD == Rat(6, 10)
ERROR_DRIFT_THRESHOLD == Rat(5, 10)
THRESHOLD_SIGMA == Rat(2, 1)
MIN_CONSECUTIVE == 3
SUSTAINED_CONSECUTIVE == 2
LOOKBACK_SECONDS == 3600

\* the exact root of a rational that is a square
ISqrt(k) == CHOOSE r \in 0..k : r * r = k
RSqrt(a) == Rat(ISqrt(a.n), ISqrt(a.d))

RECURSIVE RSumFrom(_, _)
RSumFrom(s, i) == IF i > Len(s) THEN RInt(0) ELSE RAdd(s[i], RSumFrom(s, i + 1))
RSum(s) == RSumFrom(s, 1)

\* InMemoryMetricsStorage.get_metrics(endpoint, window_minutes) followed by
\* sort_values('window_end'): the records of the endpoint and window size, by
\* ascending window_end (the window_end values of one endpoint and size differ)
RECURSIVE SortByWindowEnd(_)
SortByWindowEnd(records) ==
    IF records = {} THEN <<>>
    ELSE LET first == CHOOSE r \in records : \A q \in records : r.window_end <= q.window_end
         IN <<first>> \o SortByWindowEnd(records \ {first})

get_metrics(store, endpoint, window_minutes) ==
    SortByWindowEnd({store[i] : i \in {j \in 1..Len(store) :
                        /\ store[j].endpoint = endpoint
                        /\ store[j].window_minutes = window_minutes}})

\* values[-10:]
RecentValues(values) ==
    IF Len(values) <= RECENT_VALUES THEN values
    ELSE SubSeq(values, Len(values) - RECENT_VALUES + 1, Len(values))

NoTrend == [present |-> FALSE, slope |-> RInt(0), pct_rate_of_change |-> RInt(0),
            volatility |-> RInt(1)]

\* calculate_trend_metrics_from_df: the least-squares slope over x = 0..n-1,
\* the rate of change relative to the first value, and std / mean
calculate_trend_metrics_from_df(hist, metric_name) ==
    IF Len(hist) < MIN_HISTORY THEN NoTrend
    ELSE
      LET y == RecentValues([i \in 1..Len(hist) |-> hist[i][metric_name]])
          n == Len(y)
          sum_x == (n * (n - 1)) \div 2
          sum_xx == ((n - 1) * n * (2 * n - 1)) \div 6
          sum_y == RSum(y)
          sum_xy == RSum([i \in 1..n |-> RMul(RInt(i - 1), y[i])])
          slope == RDiv(RSub(RMul(RInt(n), sum_xy), RMul(RInt(sum_x), sum_y)),
                        RInt(n * sum_xx - sum_x * sum_x))
          rate_of_change == RDiv(RSub(y[n], y[1]), RInt(n))
          mean == RDiv(sum_y, RInt(n))
          variance == RDiv(RSum([i \in 1..n |-> RSq(RSub(y[i], mean))]), RInt(n))
      IN [present |-> TRUE,
          slope |-> slope,
          pct_rate_of_change |-> IF y[1].n # 0 THEN RDiv(rate_of_change, y[1]) ELSE RInt(0),
          volatility |-> IF mean.n # 0 THEN RDiv(RSqrt(variance), mean) ELSE RInt(0)]

\* _calculate_latency_drift_score
calculate_latency_drift_score(trend) ==
    IF ~trend.present THEN RInt(0)
    ELSE
      LET slope_part ==
            IF RLess(RInt(0), trend.slope)
              THEN RMul(RMin(RDiv(RAbs(trend.slope), RInt(10)), RInt(1)), Rat(4, 10))
              ELSE RInt(0)
          pct_change == RAbs(trend.pct_rate_of_change)
          change_part ==
            IF RLess(Rat(5, 100), pct_change)
              THEN RMul(RMin(RDiv(pct_change, Rat(5, 10)), RInt(1)), Rat(4, 10))
              ELSE RInt(0)
          vol_part ==
            IF RLess(trend.volatility, Rat(3, 10))
              THEN RMul(RSub(RInt(1), RDiv(trend.volatility, Rat(3, 10))), Rat(2, 10))
              ELSE RInt(0)
      IN RMin(RAdd(RAdd(slope_part, change_part), vol_part), RInt(1))

\* _calculate_error_drift_score
calculate_error_drift_score(trend) ==
    IF ~trend.present THEN RInt(0)
    ELSE
      LET slope_part ==
            IF RLess(RInt(0), trend.slope)
              THEN RMul(RMin(RDiv(RAbs(trend.slope), Rat(1, 100)), RInt(1)), Rat(5, 10))
              ELSE RInt(0)
          pct_change == RAbs(trend.pct_rate_of_change)
          change_part ==
            IF RLess(Rat(1, 10), pct_change)
              THEN RMul(RMin(pct_change, RInt(1)), Rat(5, 10))
              ELSE RInt(0)
      IN RMin(RAdd(slope_part, change_part), RInt(1))

\* _calculate_traffic_anomaly_score
calculate_traffic_anomaly_score(trend) ==
    IF ~trend.present THEN RInt(0)
    ELSE LET pct_change == RAbs(trend.pct_rate_of_change)
         IN IF RLess(Rat(2, 10), pct_change) THEN RMin(RDiv(pct_change, RInt(2)), RInt(1))
            ELSE RInt(0)

NoScores == [latency_drift_score |-> RInt(0), error_drift_score |-> RInt(0),
             traffic_anomaly_score |-> RInt(0)]

\* calculate_drift_confidence_scores(endpoint, [agg]), with the defaults that
\* detect puts for the scores of an empty result
calculate_drift_confidence_scores(store, endpoint, window_minutes) ==
    LET hist == get_metrics(store, endpoint, window_minutes) IN
    IF Len(hist) < MIN_HISTORY THEN NoScores
    ELSE [latency_drift_score |->
             calculate_latency_drift_score(calculate_trend_metrics_from_df(hist, "avg_latency")),
          error_drift_score |->
             calculate_error_drift_score(calculate_trend_metrics_from_df(hist, "error_rate")),
          traffic_anomaly_score |->
             calculate_traffic_anomaly_score(calculate_trend_metrics_from_df(hist, "request_volume"))]

\* the longest run of values with z > threshold_sigma, z = (val - mean) / std
\* if std > 0 else 0
RECURSIVE MaxStreakFrom(_, _, _, _, _)
MaxStreakFrom(values, baseline, i, current_streak, max_consecutive) ==
    IF i > Len(values) THEN max_consecutive
    ELSE LET over == /\ RLess(RInt(0), baseline.std_sq)
                     /\ RLess(baseline.mean, values[i])
                     /\ RLess(RSq(THRESHOLD_SIGMA),
                              ZSquared(values[i], baseline.mean, baseline.std_sq))
             streak == IF over THEN current_streak + 1 ELSE 0
         IN MaxStreakFrom(values, baseline, i + 1, streak,
                          IF streak > max_consecutive THEN streak ELSE max_consecutive)

\* detect_consecutive_anomalies on the records of a metrics storage:
\* consecutive_anomalies of the result, 0 for {}
consecutive_anomalies(storage, store, endpoint, metric_name, window_minutes, clock) ==
    LET all == get_metrics(storage, endpoint, window_minutes)
        hist == SelectSeq(all, LAMBDA r : /\ r.window_end >= clock - LOOKBACK_SECONDS
                                          /\ r.window_end <= clock)
        key == BaselineKey(endpoint, metric_name)
    IN IF Len(hist) < MIN_CONSECUTIVE THEN 0
       ELSE IF ~HasBaseline(store, key) \/ store[key].count < MIN_BASELINE_COUNT THEN 0
       ELSE LET streak == MaxStreakFrom([i \in 1..Len(hist) |-> hist[i][metric_name]],
                                        store[key], 1, 0, 0)
            IN IF streak >= MIN_CONSECUTIVE THEN streak ELSE 0

\* metrics_store = InMemoryMetricsStorage(): a new storage, with no record
NewInMemoryMetricsStorage == <<>>

\* variant: the consecutive windows are looked for in the default metrics store
detect_consecutive_anomalies_DefaultStore(default_storage, store, endpoint, metric_name, clock) ==
    consecutive_anomalies(default_storage, store, endpoint, metric_name, 1, clock)

\* detect_consecutive_anomalies(endpoint, metric_name, 1): it reads a storage
\* it has just made, not the default metrics store
detect_consecutive_anomalies(default_storage, store, endpoint, metric_name, clock) ==
    consecutive_anomalies(NewInMemoryMetricsStorage, store, endpoint, metric_name, 1, clock)

\* _is_sustained_degradation (the definition in force, the last of the module)
is_sustained_degradation(anomaly, drift_scores, default_storage, store, clock) ==
    \/ /\ anomaly.metric_name \in {"avg_latency", "p95_latency"}
       /\ RLess(LATENCY_DRIFT_THRESHOLD, drift_scores.latency_drift_score)
    \/ /\ anomaly.metric_name = "error_rate"
       /\ RLess(ERROR_DRIFT_THRESHOLD, drift_scores.error_drift_score)
    \/ detect_consecutive_anomalies(default_storage, store, anomaly.endpoint,
                                    anomaly.metric_name, clock) >= SUSTAINED_CONSECUTIVE

(***************************************************************************)
(* The detector: detect.                                                   *)
(***************************************************************************)
\* int(window[:-1])
WindowMinutes(window) ==
    CASE window = "1m" -> 1
      [] window = "5m" -> 5
      [] window = "15m" -> 15

\* the three metrics detect copies from an aggregate
MetricsOf(agg) ==
    [m \in {"avg_latency", "p95_latency", "error_rate"} |-> agg[m]]

\* current_metrics[endpoint][window_start] = {...}: a (endpoint, timestamp)
\* already there keeps its place and takes the new metrics; a new timestamp
\* goes after the windows of its endpoint; a new endpoint goes last
PutWindow(cm, agg) ==
    LET entry == [endpoint |-> agg.endpoint, window_start |-> agg.timestamp,
                  metrics |-> MetricsOf(agg)]
        same == {i \in 1..Len(cm) : /\ cm[i].endpoint = agg.endpoint
                                    /\ cm[i].window_start = agg.timestamp}
        ofEndpoint == {i \in 1..Len(cm) : cm[i].endpoint = agg.endpoint}
    IN IF same # {} THEN [i \in 1..Len(cm) |-> IF i \in same THEN entry ELSE cm[i]]
       ELSE IF ofEndpoint = {} THEN Append(cm, entry)
       ELSE LET last_i == CHOOSE i \in ofEndpoint : \A j \in ofEndpoint : j <= i
            IN SubSeq(cm, 1, last_i) \o <<entry>> \o SubSeq(cm, last_i + 1, Len(cm))

\* the loop that turns the aggregates into current_metrics, in the order in
\* which the nested dicts are then iterated
RECURSIVE CurrentMetricsFrom(_, _, _)
CurrentMetricsFrom(aggregates, i, cm) ==
    IF i > Len(aggregates) THEN cm
    ELSE CurrentMetricsFrom(aggregates, i + 1, PutWindow(cm, aggregates[i]))

\* endpoint_drift_scores[endpoint]: the scores for the window size of the first
\* aggregate of the endpoint
EndpointDriftScores(storage, aggregates, endpoint) ==
    LET first == CHOOSE i \in 1..Len(aggregates) :
                    /\ aggregates[i].endpoint = endpoint
                    /\ \A j \in 1..(i - 1) : aggregates[j].endpoint # endpoint
    IN calculate_drift_confidence_scores(storage, endpoint,
                                         WindowMinutes(aggregates[first].window))

\* anomaly['drift_context'] = {...}
Enrich(anomaly, endpoint_drift_scores, storage, store, clock) ==
    LET drift_scores == endpoint_drift_scores[anomaly.endpoint]
    IN [endpoint |-> anomaly.endpoint,
        window_start |-> anomaly.window_start,
        metric_name |-> anomaly.metric_name,
        baseline_value |-> anomaly.baseline_value,
        current_value |-> anomaly.current_value,
        ewma_value |-> anomaly.ewma_value,
        deviation_ratio |-> anomaly.deviation_ratio,
        severity |-> anomaly.severity,
        drift_context |->
           [latency_drift_score |-> drift_scores.latency_drift_score,
            error_drift_score |-> drift_scores.error_drift_score,
            traffic_anomaly_score |-> drift_scores.traffic_anomaly_score,
            is_sustained_degradation |->
               is_sustained_degradation(anomaly, drift_scores, storage, store, clock)]]

\* update_baselines: every metric of every window of current_metrics, in order
RECURSIVE UpdateBaselinesFrom(_, _, _, _, _)
UpdateBaselinesFrom(store, current_metrics, i, j, clock) ==
    IF i > Len(current_metrics) THEN store
    ELSE IF j > Len(metric_names) THEN UpdateBaselinesFrom(store, current_metrics, i + 1, 1, clock)
    ELSE UpdateBaselinesFrom(
            update_baseline(store, BaselineKey(current_metrics[i].endpoint, metric_names[j]),
                            current_metrics[i].metrics[metric_names[j]], clock),
            current_metrics, i, j + 1, clock)

update_baselines(store, current_metrics, clock) ==
    UpdateBaselinesFrom(store, current_metrics, 1, 1, clock)

\* the values update_baselines hands to update_baseline, added to the record
\* of the values of each key
RECURSIVE ObservedFrom(_, _, _, _)
ObservedFrom(obs, current_metrics, i, j) ==
    IF i > Len(current_metrics) THEN obs
    ELSE IF j > Len(metric_names) THEN ObservedFrom(obs, current_metrics, i + 1, 1)
    ELSE LET key == BaselineKey(current_metrics[i].endpoint, metric_names[j])
             before == IF key \in DOMAIN obs THEN obs[key] ELSE <<>>
         IN ObservedFrom(Put(obs, key, Append(before, current_metrics[i].metrics[metric_names[j]])),
                         current_metrics, i, j + 1)

\* variant: update_baselines runs before the baselines are read
DetectOn_UpdateFirst(storage, store, clock, current_metrics, endpoint_drift_scores) ==
    LET found == detect_anomalies(current_metrics,
                     compute_baselines(update_baselines(store, current_metrics, clock),
                                       current_metrics))
    IN [anomalies |-> [i \in 1..Len(found) |->
                          Enrich(found[i], endpoint_drift_scores, storage, store, clock)],
        current_metrics |-> current_metrics,
        store |-> update_baselines(store, current_metrics, clock)]

\* the second half of detect: the anomalies of current_metrics, enriched with
\* the drift scores of their endpoint, then the update of the baselines
DetectOn(storage, store, clock, current_metrics, endpoint_drift_scores) ==
    LET found == detect_anomalies(current_metrics, compute_baselines(store, current_metrics))
    IN [anomalies |-> [i \in 1..Len(found) |->
                          Enrich(found[i], endpoint_drift_scores, storage, store, clock)],
        current_metrics |-> current_metrics,
        store |-> update_baselines(store, current_metrics, clock)]

\* detect(aggregates): what it returns and the baseline store it leaves
detect(storage, store, aggregates, clock) ==
    IF aggregates = <<>> THEN [anomalies |-> <<>>, current_metrics |-> <<>>, store |-> store]
    ELSE DetectOn(storage, store, clock, CurrentMetricsFrom(aggregates, 1, <<>>),
                  [e \in {aggregates[i].endpoint : i \in 1..Len(aggregates)} |->
                      EndpointDriftScores(storage, aggregates, e)])

(***************************************************************************)
(* Inputs.                                                                 *)
(***************************************************************************)
Signal(m, sev, cur, dev) ==
    [metric_name |-> m, severity |-> sev, current_value |-> cur, deviation_ratio |-> dev]

\* signals on both sides of the two spike thresholds, of every metric
SignalPool ==
    {Signal(m, sev, 0, dev) : m \in {"avg_latency", "p95_latency"},
                              sev \in {"LOW", "HIGH"}, dev \in {20, 21}}
    \cup {Signal("error_rate", sev, cur, 0) : sev \in {"LOW", "HIGH"}, cur \in {5, 6}}
    \cup {Signal("request_volume", sev, 6, 21) : sev \in {"LOW", "HIGH"}}

SeqsUpTo(S, n) == UNION {[1..k -> S] : k \in 0..n}

GivenSeverities == {"WARN", "CRITICAL", "HIGH"}

Candidate(e, sev, signals) == [endpoint |-> e, severity |-> sev, signals |-> signals]

\* candidates of the alert-manager runs: every severity on one endpoint (a
\* given one, or none and so INFO), and a second endpoint with the same severity
\* as one of them
Candidates ==
    {Candidate("/a", sev, <<>>) : sev \in GivenSeverities \cup {NoSeverity}}
    \cup {Candidate("/b", "CRITICAL", <<>>)}

NoCall == [outcome |-> "none"]
EmptyMap == [k \in {} |-> 0]

(***************************************************************************)
(* Spec: one AlertManager driven by a single thread.                       *)
(***************************************************************************)
\* no correlate call is modelled
CorrIdle == anomalies = <<>> /\ alerts = <<>> /\ correlated = FALSE

NoFrame == [alert |-> Candidate("", "", <<>>), success |-> FALSE, returned |-> FALSE,
            overlapped |-> FALSE]

NoDetect == [called |-> FALSE, seen |-> 0, aggregates |-> <<>>, current_metrics |-> <<>>,
             anomalies |-> <<>>, baselines_before |-> <<>>]

\* no baseline, no metric, no detect call is modelled
DetIdle ==
    /\ baselines = <<>>
    /\ observed = <<>>
    /\ metrics = <<>>
    /\ detected = NoDetect

NoAggregation == [called |-> "none", now |-> 0, raw_logs |-> <<>>, results |-> <<>>,
                  db |-> <<>>]
\* a result is the set of the one value returned: {} for None and for a raise
NoStoreCall == [op |-> "none", id |-> "", alert |-> {}, result |-> {}, raised |-> FALSE,
                before |-> {}, issued |-> <<>>]

\* no aggregation, no alert store is modelled; the baseline store is in memory
AuxIdle ==
    /\ backend = "memory"
    /\ raw_logs = <<>>
    /\ aggregated = NoAggregation
    /\ alert_rows = <<>>
    /\ stored = NoStoreCall

\* no thread is modelled
ConcIdle ==
    /\ pc = [t \in Threads |-> "idle"]
    /\ frame = [t \in Threads |-> NoFrame]
    /\ lock_owner = NoThread

Init ==
    /\ now = 0
    /\ recent_alerts = EmptyMap
    /\ last = NoCall
    /\ CorrIdle
    /\ ConcIdle
    /\ AuxIdle
    /\ DetIdle

\* the wall clock advances
Tick ==
    /\ last = NoCall
    /\ \E t \in TimePoints : t > now /\ now' = t
    /\ UNCHANGED <<recent_alerts, last, NotAm>>

ProcessAlert ==
    /\ last = NoCall
    /\ \E a \in Candidates :
       \E c \in OutcomesOf("console", a, ConsoleOutcomes),
          sl \in OutcomesOf("slack", a, RemoteOutcomes),
          em \in OutcomesOf("email", a, RemoteOutcomes),
          st \in StoreOutcomesOf(a) :
          /\ process_alert(a, c, sl, em, st)
          /\ Cardinality(DOMAIN recent_alerts') <= MaxTracked

\* the caller has the result of process_alert
Return ==
    /\ last # NoCall
    /\ last' = NoCall
    /\ UNCHANGED <<now, recent_alerts, NotAm>>

\* clear_cooldowns()
ClearCooldowns ==
    /\ last = NoCall
    /\ recent_alerts # EmptyMap
    /\ recent_alerts' = EmptyMap
    /\ UNCHANGED <<now, last, NotAm>>

Next == Tick \/ ProcessAlert \/ Return \/ ClearCooldowns

vars == <<amVars, corrVars, concVars, detVars, auxVars>>

Spec == Init /\ [][Next]_vars

(***************************************************************************)
(* Claims on Spec.  "Accepted" is a call that passed both suppression      *)
(* checks and was routed; Since is the time from the latest accepted alert *)
(* of the call's key to the call.                                          *)
(***************************************************************************)
Called == last # NoCall
Tracked == Called /\ last.key \in DOMAIN last.recent_before
Since == last.time - last.recent_before[last.key]

C2_Original ==
    (Tracked /\ last.alert.severity = "CRITICAL") =>
      (last.outcome = "routed" <=> Since >= ALERT_COOLDOWN_CRITICAL)

\* C2 (amended): a CRITICAL candidate is accepted exactly when at least
\* ALERT_DEDUP_WINDOW (600s) has passed since the latest accepted alert of its
\* key; it returns true exactly when it is accepted and the console accepts.
C2_CriticalSuppression ==
    (Tracked /\ last.alert.severity = "CRITICAL") =>
      /\ last.outcome = "routed" <=> Since >= ALERT_DEDUP_WINDOW
      /\ last.returned <=> (Since >= ALERT_DEDUP_WINDOW /\ last.console_out = "ok")

\* a CRITICAL candidate past its cooldown, inside the dedup window, is dropped
C2_Witness ==
    /\ Tracked
    /\ last.alert.severity = "CRITICAL"
    /\ Since >= ALERT_COOLDOWN_CRITICAL
    /\ Since < ALERT_DEDUP_WINDOW
    /\ last.outcome = "dropped"

RemoteFailures == {"unconfigured", "fail", "raise"}

\* C5: when the Slack or the email send of an accepted alert fails, the call
\* returns what it returns when both succeed, and each of the two channels is
\* used once and makes at most one request.
C5_RemoteFailuresIgnored ==
    (/\ Called
     /\ last.outcome = "routed"
     /\ (last.slack_out \in RemoteFailures \/ last.email_out \in RemoteFailures)) =>
      /\ last.returned = route_alert(last.alert, last.console_out, "ok", "ok").success
      /\ last.route.slack <= 1 /\ last.route.slack_requests <= 1
      /\ last.route.email <= 1 /\ last.route.email_requests <= 1

C5_Witness ==
    /\ Called
    /\ last.outcome = "routed"
    /\ last.slack_out = "raise"
    /\ last.email_out = "fail"
    /\ last.route.slack_requests = 1
    /\ last.returned

\* C6: a candidate dropped by deduplication or cooldown leaves _recent_alerts
\* as it was, for every key, writes nothing to the alert store and uses no
\* channel.
C6_DropLeavesNoTrace ==
    (Called /\ last.outcome = "dropped") =>
      /\ recent_alerts = last.recent_before
      /\ ~last.stored
      /\ last.route.console = 0 /\ last.route.slack = 0 /\ last.route.email = 0
      /\ ~last.returned

C6_Witness ==
    /\ Called
    /\ last.outcome = "dropped"
    /\ last.reason = "cooldown"
    /\ Cardinality(DOMAIN recent_alerts) = 2
    /\ recent_alerts = last.recent_before

Uses(channel, channels) == Cardinality({i \in 1..Len(channels) : channels[i] = channel})

\* C7: when store_alert raises for an accepted candidate, process_alert does
\* not raise; the alert is routed to the channels of its severity, the time of
\* its key is set to the time of the call, and the call returns the console
\* result.
C7_StoreFailureTolerated ==
    (Called /\ last.store_out = "raise") =>
      /\ ~last.raised
      /\ ~last.stored
      /\ \A ch \in {"console", "slack", "email"} :
            last.route[ch] = Uses(ch, ChannelsOf(last.alert.severity))
      /\ last.key \in DOMAIN recent_alerts
      /\ recent_alerts[last.key] = last.time
      /\ last.returned <=> last.console_out = "ok"

C7_Witness ==
    /\ Called
    /\ last.store_out = "raise"
    /\ last.alert.severity = "CRITICAL"
    /\ last.route.email = 1
    /\ last.returned

(***************************************************************************)
(* SpecClassify: process_alert on a fresh AlertManager, once, for every    *)
(* candidate with up to MaxSignals signals; the channels and the store     *)
(* work (Slack and email are not configured, as by default).               *)
(***************************************************************************)
ClassifyCandidates ==
    {Candidate("/a", sev, sg) : sev \in {NoSeverity, "WARN", "HIGH"},
                                sg \in SeqsUpTo(SignalPool, MaxSignals)}

InitClassify ==
    /\ now = 3600
    /\ recent_alerts = EmptyMap
    /\ last = NoCall
    /\ CorrIdle
    /\ ConcIdle
    /\ AuxIdle
    /\ DetIdle

ProcessFresh ==
    /\ last = NoCall
    /\ recent_alerts = EmptyMap
    /\ \E a \in ClassifyCandidates :
       \E c \in OutcomesOf("console", a, {"ok"}),
          sl \in OutcomesOf("slack", a, {"unconfigured"}),
          em \in OutcomesOf("email", a, {"unconfigured"}) :
          process_alert(a, c, sl, em, "ok")

NextClassify == ProcessFresh \/ Return

SpecClassify == InitClassify /\ [][NextClassify]_vars

\* the severity C8 gives to a list of signals
C8_AnyHigh(sg) == \E i \in 1..Len(sg) : sg[i].severity = "HIGH"
C8_ErrorSpike(sg) ==
    \E i \in 1..Len(sg) : sg[i].metric_name = "error_rate" /\ sg[i].current_value > 5
C8_LatencySpike(sg) ==
    \E i \in 1..Len(sg) : /\ sg[i].metric_name \in {"avg_latency", "p95_latency"}
                          /\ sg[i].deviation_ratio > 20
C8_Severity(sg) ==
    IF C8_AnyHigh(sg) \/ Len(sg) >= 3 \/ (C8_ErrorSpike(sg) /\ C8_LatencySpike(sg))
      THEN "CRITICAL"
    ELSE IF C8_ErrorSpike(sg) \/ C8_LatencySpike(sg) \/ Len(sg) >= 2
      THEN "WARN"
    ELSE "INFO"

\* C8: the severity process_alert works with is the candidate's own when it
\* has one; when it has none it is CRITICAL if a signal has severity HIGH, or
\* there are >= 3 signals, or an error spike (error_rate above 0.05) and a
\* latency spike (avg/p95 latency deviation_ratio above 2.0) are both present,
\* else WARN if there is an error spike, a latency spike or >= 2 signals, else
\* INFO.
C8_SeverityBackstop ==
    Called =>
      /\ last.alert.severity =
            IF last.alert_in.severity # NoSeverity THEN last.alert_in.severity
            ELSE C8_Severity(last.alert_in.signals)
      /\ last.key = AlertKey(last.alert)

\* two LOW signals, no HIGH one, classified CRITICAL by the two spikes
C8_Witness ==
    /\ Called
    /\ last.alert_in.severity = NoSeverity
    /\ Len(last.alert_in.signals) = 2
    /\ ~C8_AnyHigh(last.alert_in.signals)
    /\ last.alert.severity = "CRITICAL"
    /\ last.outcome = "routed"

(***************************************************************************)
(* SpecCorr: correlate applied once to a list of up to MaxAnomalies        *)
(* anomalies.                                                              *)
(***************************************************************************)
W1 == "2026-02-02T15:00:00Z"
W2 == "2026-02-02T15:01:00Z"
SustainedContext == [present |-> TRUE, is_sustained_degradation |-> TRUE]

Anomaly(e, w, m, sev, dev, ws, ctx) ==
    [endpoint |-> e, window_start |-> w, metric_name |-> m, severity |-> sev,
     deviation_ratio |-> dev, window_seconds |-> ws, drift_context |-> ctx]

\* one group with every metric at both severities; the same metric with ratios
\* whose str() order differs from their numeric order; other endpoints and
\* windows; an anomaly without endpoint; one with a drift context; one with
\* window_seconds
AnomalyPool ==
    {Anomaly("/a", W1, m, sev, 20, NoWindowSeconds, NoDriftContext) :
        m \in {"avg_latency", "p95_latency", "error_rate", "request_volume"},
        sev \in {"LOW", "HIGH"}}
    \cup {Anomaly("/a", W1, "avg_latency", "HIGH", dev, NoWindowSeconds, NoDriftContext) :
        dev \in {100, -5}}
    \cup {Anomaly("/b", W1, "avg_latency", "LOW", 20, NoWindowSeconds, NoDriftContext),
          Anomaly("/b", W1, "request_volume", "HIGH", 20, NoWindowSeconds, NoDriftContext),
          Anomaly("/a", W2, "error_rate", "HIGH", 20, NoWindowSeconds, NoDriftContext),
          Anomaly("", W1, "avg_latency", "HIGH", 20, NoWindowSeconds, NoDriftContext),
          Anomaly("/a", W1, "error_rate", "LOW", 20, NoWindowSeconds, SustainedContext),
          Anomaly("/a", W1, "p95_latency", "LOW", 20, 300, NoDriftContext)}

AmIdle == now = 0 /\ recent_alerts = EmptyMap /\ last = NoCall

InitCorr ==
    /\ anomalies \in SeqsUpTo(AnomalyPool, MaxAnomalies)
    /\ alerts = <<>>
    /\ correlated = FALSE
    /\ AmIdle
    /\ ConcIdle
    /\ AuxIdle
    /\ DetIdle

Correlate ==
    /\ ~correlated
    /\ alerts' = correlate(anomalies)
    /\ correlated' = TRUE
    /\ UNCHANGED <<anomalies, NotCorr>>

NextCorr == Correlate

SpecCorr == InitCorr /\ [][NextCorr]_vars

\* what C9 and C10 speak of: the anomalies of a key, the candidates of a key
C9_Keys == {<<e, w>> : e \in {"/a", "/b"}, w \in {W1, W2}}
C9_Group(key) == {i \in 1..Len(anomalies) : /\ anomalies[i].endpoint = key[1]
                                            /\ anomalies[i].window_start = key[2]}
C9_Emitted(key) == {i \in 1..Len(alerts) : /\ alerts[i].endpoint = key[1]
                                           /\ alerts[i].window_start = key[2]}
C9_Latency(key) ==
    \E i \in C9_Group(key) : anomalies[i].metric_name \in {"avg_latency", "p95_latency"}
C9_Error(key) == \E i \in C9_Group(key) : anomalies[i].metric_name = "error_rate"

Occurrences(x, s) == Cardinality({i \in 1..Len(s) : s[i] = x})

\* C10: correlate emits at most one candidate per (endpoint, window_start), and
\* the signals of a candidate are the input anomalies of that endpoint and
\* window_start, each as many times as it is in the input.
C10_GroupsPreserved ==
    correlated =>
      /\ \A key \in C9_Keys : Cardinality(C9_Emitted(key)) <= 1
      /\ \A i \in 1..Len(alerts) :
           LET key == <<alerts[i].endpoint, alerts[i].window_start>> IN
           /\ key \in C9_Keys
           /\ Len(alerts[i].signals) = Cardinality(C9_Group(key))
           /\ \A a \in AnomalyPool :
                Occurrences(a, alerts[i].signals) =
                   Cardinality({j \in C9_Group(key) : anomalies[j] = a})

\* two candidates, one of them with the same anomaly twice
C10_Witness ==
    /\ correlated
    /\ Len(alerts) = 2
    /\ Len(anomalies) = 3
    /\ \E i \in 1..Len(alerts) :
         /\ Len(alerts[i].signals) = 2
         /\ alerts[i].signals[1] = alerts[i].signals[2]

(***************************************************************************)
(* SpecConc: two threads call process_alert on one AlertManager, once      *)
(* each.  A step is one access to the shared state: the two checks read    *)
(* the clock and _recent_alerts without the lock; only the write of        *)
(* _update_alert_tracking is made under _lock.  The store works, Slack and *)
(* email are not configured.                                               *)
(***************************************************************************)
InitConc ==
    /\ now = 0
    /\ recent_alerts = EmptyMap
    /\ last = NoCall
    /\ CorrIdle
    /\ ConcIdle
    /\ AuxIdle
    /\ DetIdle

Active(t) == pc[t] \notin {"idle", "done"}

\* time passes while the threads run
TickConc ==
    /\ \E t \in TimePoints : t > now /\ now' = t
    /\ UNCHANGED <<recent_alerts, last, NotAm>>

\* variant: the whole of process_alert runs with self._lock
Enter_Locked(t) ==
    /\ pc[t] = "idle"
    /\ lock_owner \in {NoThread, t}
    /\ lock_owner' = t
    /\ \E a \in Candidates :
         frame' = [u \in Threads |->
                     IF u = t THEN [NoFrame EXCEPT !.alert = EnsureSeverity(a),
                                                   !.overlapped = \E v \in Threads \ {t} : Active(v)]
                     ELSE IF Active(u) THEN [frame[u] EXCEPT !.overlapped = TRUE]
                     ELSE frame[u]]
    /\ pc' = [pc EXCEPT ![t] = "dedup"]
    /\ UNCHANGED NotConc

\* process_alert is entered: the severity is ensured
Enter(t) ==
    /\ pc[t] = "idle"
    /\ \E a \in Candidates :
         frame' = [u \in Threads |->
                     IF u = t THEN [NoFrame EXCEPT !.alert = EnsureSeverity(a),
                                                   !.overlapped = \E v \in Threads \ {t} : Active(v)]
                     ELSE IF Active(u) THEN [frame[u] EXCEPT !.overlapped = TRUE]
                     ELSE frame[u]]
    /\ pc' = [pc EXCEPT ![t] = "dedup"]
    /\ UNCHANGED <<NotConc, lock_owner>>

\* if self._should_deduplicate(alert): return False
CheckDedup(t) ==
    /\ pc[t] = "dedup"
    /\ pc' = [pc EXCEPT ![t] = IF should_deduplicate(recent_alerts, frame[t].alert, now)
                                 THEN "done" ELSE "cooldown"]
    /\ UNCHANGED <<NotConc, frame, lock_owner>>

\* if self._is_in_cooldown(alert): return False
CheckCooldown(t) ==
    /\ pc[t] = "cooldown"
    /\ pc' = [pc EXCEPT ![t] = IF is_in_cooldown(recent_alerts, frame[t].alert, now)
                                 THEN "done" ELSE "route"]
    /\ UNCHANGED <<NotConc, frame, lock_owner>>

\* store_alert and _route_alert: no shared state of the AlertManager
StoreAndRoute(t) ==
    /\ pc[t] = "route"
    /\ \E c \in ConsoleOutcomes :
         frame' = [frame EXCEPT ![t].success =
                      route_alert(frame[t].alert, c, "unconfigured", "unconfigured").success]
    /\ pc' = [pc EXCEPT ![t] = "lock"]
    /\ UNCHANGED <<NotConc, lock_owner>>

\* _update_alert_tracking: with self._lock
AcquireLock(t) ==
    /\ pc[t] = "lock"
    /\ lock_owner \in {NoThread, t}
    /\ lock_owner' = t
    /\ pc' = [pc EXCEPT ![t] = "track"]
    /\ UNCHANGED <<NotConc, frame>>

\* self._recent_alerts[key] = time.time()
WriteTracking(t) ==
    /\ pc[t] = "track"
    /\ lock_owner = t
    /\ recent_alerts' = update_alert_tracking(recent_alerts, frame[t].alert, now)
    /\ pc' = [pc EXCEPT ![t] = "unlock"]
    /\ UNCHANGED <<now, last, corrVars, detVars, auxVars, frame, lock_owner>>

\* the end of the with block, and 'return success'
ReleaseAndReturn(t) ==
    /\ pc[t] = "unlock"
    /\ lock_owner' = NoThread
    /\ frame' = [frame EXCEPT ![t].returned = frame[t].success]
    /\ pc' = [pc EXCEPT ![t] = "done"]
    /\ UNCHANGED NotConc

NextConc ==
    \/ TickConc
    \/ \E t \in Threads : Enter(t)
    \/ \E t \in Threads : CheckDedup(t)
    \/ \E t \in Threads : CheckCooldown(t)
    \/ \E t \in Threads : StoreAndRoute(t)
    \/ \E t \in Threads : AcquireLock(t)
    \/ \E t \in Threads : WriteTracking(t)
    \/ \E t \in Threads : ReleaseAndReturn(t)

SpecConc == InitConc /\ [][NextConc]_vars

\* C3: of two process_alert calls for the same (endpoint, severity) that run
\* concurrently on one AlertManager, at most one returns true.
C3_AtMostOneConcurrentSend ==
    \A t, u \in Threads :
      (/\ t # u
       /\ pc[t] = "done" /\ pc[u] = "done"
       /\ frame[t].overlapped /\ frame[u].overlapped
       /\ AlertKey(frame[t].alert) = AlertKey(frame[u].alert))
      => ~(frame[t].returned /\ frame[u].returned)

(***************************************************************************)
(* The order of correlate's output, on SpecCorr.                           *)
(***************************************************************************)
Perms(n) == {p \in [1..n -> 1..n] : \A i, j \in 1..n : i # j => p[i] # p[j]}
Permuted(s, p) == [i \in 1..Len(s) |-> s[p[i]]]

\* (metric_name, deviation_ratio) of a is not above that of b, the ratio taken
\* as a number
C11_NotAbove(a, b) ==
    \/ StrRank(a.metric_name) < StrRank(b.metric_name)
    \/ a.metric_name = b.metric_name /\ a.deviation_ratio <= b.deviation_ratio

C11_Ascending ==
    \A i \in 1..Len(alerts) :
      \A j \in 1..(Len(alerts[i].signals) - 1) :
        C11_NotAbove(alerts[i].signals[j], alerts[i].signals[j + 1])

C11_PermutationInvariant ==
    \A p \in Perms(Len(anomalies)) : correlate(Permuted(anomalies, p)) = alerts

\* C11: the signals of every candidate are in ascending (metric_name,
\* deviation_ratio) order, and correlate returns the same candidates, in the
\* same order and with the same signal sequences, for every permutation of its
\* input.
C11_StableOutput ==
    correlated => (C11_Ascending /\ C11_PermutationInvariant)

(***************************************************************************)
(* SpecDetect: detect is called on one baseline store and one metrics      *)
(* store, until MaxAggregates aggregates have been given to it.  The       *)
(* stores start with baselines and records that store_baseline,            *)
(* update_baseline and store_metrics can have put there.                   *)
(***************************************************************************)
MaxAggregates == 2

T1 == "2026-02-02T15:00:00Z"
T2 == "2026-02-02T15:01:00Z"

\* the clock of the detector runs: datetime.now(), in seconds
DetectClock == 7200

Baseline(mean, std_sq, ewma, ewma_variance, count) ==
    [mean |-> mean, std_sq |-> std_sq, count |-> count, last_updated |-> 0,
     ewma |-> ewma, ewma_variance |-> ewma_variance]

\* latency baselines: mean 10 and std 2 (one observation short of the minimum,
\* and at it), without rolling spread, without EWMA spread, with an EWMA away
\* from the mean, with mean 0
LatencyShort == Baseline(RInt(10), RInt(4), RInt(10), RInt(4), 9)
LatencyReady == Baseline(RInt(10), RInt(4), RInt(10), RInt(4), 10)
LatencyNoStd == Baseline(RInt(10), RInt(0), RInt(10), RInt(4), 10)
LatencyNoEwmaStd == Baseline(RInt(10), RInt(4), RInt(10), RInt(0), 10)
LatencySkewed == Baseline(RInt(10), RInt(4), RInt(12), RInt(4), 12)
LatencyZeroMean == Baseline(RInt(0), RInt(4), RInt(0), RInt(4), 10)
\* an error-rate baseline: mean 0.25 and std 0.125
ErrorReady == Baseline(Rat(1, 4), Rat(1, 64), Rat(1, 4), Rat(1, 64), 10)
ErrorFlat == Baseline(Rat(1, 4), RInt(0), Rat(1, 4), RInt(0), 10)

StoreOf(endpoint, avg, p95, err) ==
    (<<endpoint, "avg_latency">> :> avg) @@ (<<endpoint, "p95_latency">> :> p95)
        @@ (<<endpoint, "error_rate">> :> err)

BaselineStores ==
    {<<>>,
     <<"/a", "avg_latency">> :> LatencyShort,
     StoreOf("/a", LatencyReady, LatencyReady, ErrorReady),
     StoreOf("/a", LatencyNoStd, LatencyNoEwmaStd, ErrorFlat),
     StoreOf("/a", LatencySkewed, LatencyZeroMean, ErrorReady)}

MetricRecord(endpoint, window_minutes, window_end, avg, err, volume) ==
    [endpoint |-> endpoint, window_minutes |-> window_minutes, window_end |-> window_end,
     avg_latency |-> avg, p95_latency |-> avg, error_rate |-> err, request_volume |-> volume]

\* no history; three 1m windows of the last hour, all of them 3 std above the
\* latency baseline, flat; four windows with rising latency; four windows with
\* a rising error rate
MetricHistories ==
    {<<>>,
     <<MetricRecord("/a", 1, 7020, RInt(16), Rat(1, 4), RInt(100)),
       MetricRecord("/a", 1, 7080, RInt(16), Rat(1, 4), RInt(100)),
       MetricRecord("/a", 1, 7140, RInt(16), Rat(1, 4), RInt(100))>>,
     <<MetricRecord("/a", 1, 7140, RInt(30), Rat(1, 4), RInt(100)),
       MetricRecord("/a", 1, 6960, RInt(10), Rat(1, 4), RInt(100)),
       MetricRecord("/a", 1, 7020, RInt(10), Rat(1, 4), RInt(100)),
       MetricRecord("/a", 1, 7080, RInt(30), Rat(1, 4), RInt(100)),
       MetricRecord("/a", 5, 7080, RInt(10), Rat(1, 4), RInt(100)),
       MetricRecord("/b", 1, 7080, RInt(10), Rat(1, 4), RInt(100))>>,
     <<MetricRecord("/a", 1, 6960, RInt(10), Rat(1, 4), RInt(100)),
       MetricRecord("/a", 1, 7020, RInt(10), Rat(1, 4), RInt(100)),
       MetricRecord("/a", 1, 7080, RInt(10), Rat(3, 4), RInt(300)),
       MetricRecord("/a", 1, 7140, RInt(10), Rat(3, 4), RInt(300))>>}

Aggregate(endpoint, window, timestamp, avg, p95, err) ==
    [endpoint |-> endpoint, window |-> window, timestamp |-> timestamp,
     avg_latency |-> avg, p95_latency |-> p95, error_rate |-> err]

\* values on both sides of the thresholds of a baseline of mean 10 and std 2
\* (13: z = 1.5; 14: z = 2; 16: z = 3) and of mean 0.25 and std 0.125; two
\* window sizes with one timestamp; two timestamps
AggregatePool ==
    {Aggregate("/a", "1m", T1, RInt(13), RInt(14), Rat(1, 2)),
     Aggregate("/a", "1m", T1, RInt(12), RInt(15), Rat(1, 4)),
     Aggregate("/a", "5m", T1, RInt(16), RInt(17), Rat(3, 4)),
     Aggregate("/a", "1m", T2, RInt(6), RInt(13), RInt(0))}

InitDetect ==
    /\ baselines \in BaselineStores
    /\ metrics \in MetricHistories
    /\ observed = <<>>
    /\ detected = NoDetect
    /\ now = DetectClock
    /\ recent_alerts = EmptyMap
    /\ last = NoCall
    /\ CorrIdle
    /\ ConcIdle
    /\ AuxIdle

DetectStep(out, aggregates) ==
      /\ detected' = [called |-> TRUE,
                      seen |-> detected.seen + Len(aggregates),
                      aggregates |-> aggregates,
                      current_metrics |-> out.current_metrics,
                      anomalies |-> out.anomalies,
                      baselines_before |-> baselines]
      /\ baselines' = out.store
      /\ observed' = ObservedFrom(observed, out.current_metrics, 1, 1)
      /\ UNCHANGED <<metrics, NotDet>>

Detect ==
    \E aggregates \in SeqsUpTo(AggregatePool, MaxAggregates - detected.seen) :
       DetectStep(detect(metrics, baselines, aggregates, now), aggregates)

NextDetect == Detect

SpecDetect == InitDetect /\ [][NextDetect]_vars

(***************************************************************************)
(* Claims on SpecDetect.  detected holds the latest detect call: the       *)
(* aggregates it was given, the current_metrics it built, the anomalies it *)
(* returned and the baseline store as it was when the call began.          *)
(***************************************************************************)
AnomalyKey(a) == BaselineKey(a.endpoint, a.metric_name)

\* the anomalies of the latest call for one metric of one window
AnomaliesOf(endpoint, window_start, m) ==
    {i \in 1..Len(detected.anomalies) :
        /\ detected.anomalies[i].endpoint = endpoint
        /\ detected.anomalies[i].window_start = window_start
        /\ detected.anomalies[i].metric_name = m}

\* C12: every anomaly detect returns refers to a baseline that existed when
\* the call began and had at least 10 observations; a metric whose baseline
\* is missing or has fewer than 10 observations yields no anomaly.
C12_SufficientBaseline ==
    \A i \in 1..Len(detected.anomalies) :
       /\ AnomalyKey(detected.anomalies[i]) \in DOMAIN detected.baselines_before
       /\ detected.baselines_before[AnomalyKey(detected.anomalies[i])].count >= 10

\* a window whose avg_latency is far enough from a baseline of 9 observations
\* to be anomalous, and no anomaly for it
C12_Witness ==
    /\ detected.called
    /\ \E i \in 1..Len(detected.current_metrics) :
         LET e == detected.current_metrics[i]
             key == BaselineKey(e.endpoint, "avg_latency")
         IN /\ key \in DOMAIN detected.baselines_before
            /\ detected.baselines_before[key].count = 9
            /\ RLeq(RInt(4), ZSquared(e.metrics["avg_latency"],
                                      detected.baselines_before[key].mean,
                                      detected.baselines_before[key].std_sq))
            /\ AnomaliesOf(e.endpoint, e.window_start, "avg_latency") = {}

\* the baseline the latest call read for one metric of an endpoint
BaselineBefore(endpoint, m) == detected.baselines_before[BaselineKey(endpoint, m)]

\* whether the latest call read a baseline of at least 10 observations
Judged(endpoint, m) ==
    /\ BaselineKey(endpoint, m) \in DOMAIN detected.baselines_before
    /\ BaselineBefore(endpoint, m).count >= 10

\* abs((v - center) / spread) >= num / den with spread > 0, by cross-multiplication
Exceeds(v, center, spread_sq, num, den) ==
    /\ spread_sq.n > 0
    /\ RLeq(RMul(RInt(num * num), spread_sq), RMul(RInt(den * den), RSq(RSub(v, center))))

\* C13: a metric of a window whose baseline has at least 10 observations
\* yields an anomaly exactly when |z_rolling| >= 2.0 or |z_ewma| >= 1.5, where
\* a z-score over a zero std (or ewma_std) is 0.
C13_AnomalyIffZ ==
    \A i \in 1..Len(detected.current_metrics) :
      \A j \in 1..Len(metric_names) :
        LET e == detected.current_metrics[i]
            m == metric_names[j]
        IN Judged(e.endpoint, m) =>
             ((AnomaliesOf(e.endpoint, e.window_start, m) # {})
               <=> \/ Exceeds(e.metrics[m], BaselineBefore(e.endpoint, m).mean,
                              BaselineBefore(e.endpoint, m).std_sq, 2, 1)
                   \/ Exceeds(e.metrics[m], BaselineBefore(e.endpoint, m).ewma,
                              BaselineBefore(e.endpoint, m).ewma_variance, 3, 2))

\* one window: avg_latency off a mean with zero std and within 1.5 ewma_std,
\* no anomaly; p95_latency 2 std off with zero ewma_std, an anomaly
C13_Witness ==
    /\ detected.called
    /\ \E i \in 1..Len(detected.current_metrics) :
         LET e == detected.current_metrics[i] IN
         /\ Judged(e.endpoint, "avg_latency")
         /\ BaselineBefore(e.endpoint, "avg_latency").std_sq.n = 0
         /\ e.metrics["avg_latency"] # BaselineBefore(e.endpoint, "avg_latency").mean
         /\ AnomaliesOf(e.endpoint, e.window_start, "avg_latency") = {}
         /\ Judged(e.endpoint, "p95_latency")
         /\ BaselineBefore(e.endpoint, "p95_latency").ewma_variance.n = 0
         /\ AnomaliesOf(e.endpoint, e.window_start, "p95_latency") # {}

\* the value of one metric of one window of the latest call
CurrentValue(endpoint, window_start, m) ==
    LET i == CHOOSE k \in 1..Len(detected.current_metrics) :
                /\ detected.current_metrics[k].endpoint = endpoint
                /\ detected.current_metrics[k].window_start = window_start
    IN detected.current_metrics[i].metrics[m]

\* max(|mean|, 1.0)
MaxAbsOrOne(mean) == IF RLess(RInt(1), RAbs(mean)) THEN RAbs(mean) ELSE RInt(1)

\* C14: the deviation_ratio of every anomaly is (v - mean) / max(|mean|, 1.0),
\* rounded to four decimals, for every baseline mean, those with
\* 0 < |mean| < 1 included.
C14_DeviationRatio ==
    \A i \in 1..Len(detected.anomalies) :
      LET a == detected.anomalies[i]
          v == CurrentValue(a.endpoint, a.window_start, a.metric_name)
          mean == BaselineBefore(a.endpoint, a.metric_name).mean
      IN a.deviation_ratio = Round4(RDiv(RSub(v, mean), MaxAbsOrOne(mean)))

\* the same statement for the means it is true of: 0, and those of absolute
\* value at least 1
C14_OutsideUnitInterval ==
    \A i \in 1..Len(detected.anomalies) :
      LET a == detected.anomalies[i]
          v == CurrentValue(a.endpoint, a.window_start, a.metric_name)
          mean == BaselineBefore(a.endpoint, a.metric_name).mean
      IN (mean.n = 0 \/ RLeq(RInt(1), RAbs(mean)))
           => a.deviation_ratio = Round4(RDiv(RSub(v, mean), MaxAbsOrOne(mean)))

\* whether max(|z_rolling|, |z_ewma|) >= num / den for the baseline b
ZAtLeast(v, b, num, den) ==
    \/ Exceeds(v, b.mean, b.std_sq, num, den)
    \/ Exceeds(v, b.ewma, b.ewma_variance, num, den)

\* C15: the severity of every anomaly follows z = max(|z_rolling|, |z_ewma|):
\* HIGH when z >= 3.0, MEDIUM when 2.0 <= z < 3.0, LOW otherwise.
C15_SeverityFromZ ==
    \A i \in 1..Len(detected.anomalies) :
      LET a == detected.anomalies[i]
          v == CurrentValue(a.endpoint, a.window_start, a.metric_name)
          b == BaselineBefore(a.endpoint, a.metric_name)
      IN a.severity = IF ZAtLeast(v, b, 3, 1) THEN "HIGH"
                      ELSE IF ZAtLeast(v, b, 2, 1) THEN "MEDIUM"
                      ELSE "LOW"

\* one call returns an anomaly of each severity: z exactly 3.0 (HIGH), z
\* exactly 2.0 (MEDIUM), and z = 1.5, an anomaly by the EWMA score only (LOW)
C15_Witness ==
    /\ detected.called
    /\ \A sev \in {"HIGH", "MEDIUM", "LOW"} :
         \E i \in 1..Len(detected.anomalies) : detected.anomalies[i].severity = sev
    /\ \E i \in 1..Len(detected.anomalies) :
         LET a == detected.anomalies[i]
             v == CurrentValue(a.endpoint, a.window_start, a.metric_name)
             b == BaselineBefore(a.endpoint, a.metric_name)
         IN /\ a.severity = "HIGH"
            /\ RSq(RSub(v, b.mean)) = RMul(RInt(9), b.std_sq)

\* the stored one-minute windows of an endpoint, oldest first
StoredWindows(endpoint) == get_metrics(metrics, endpoint, 1)

\* whether the value of the metric in a stored window is more than 2 std above
\* the mean of the baseline the latest call read
OverThreshold(record, endpoint, m) ==
    /\ Judged(endpoint, m)
    /\ RLess(BaselineBefore(endpoint, m).mean, record[m])
    /\ Exceeds(record[m], BaselineBefore(endpoint, m).mean,
               BaselineBefore(endpoint, m).std_sq, 2, 1)
    /\ RSq(RSub(record[m], BaselineBefore(endpoint, m).mean))
         # RMul(RInt(4), BaselineBefore(endpoint, m).std_sq)

\* three stored windows in a row over the threshold
ThreeConsecutiveOver(endpoint, m) ==
    \E i \in 1..(Len(StoredWindows(endpoint)) - 2) :
       \A k \in i..(i + 2) : OverThreshold(StoredWindows(endpoint)[k], endpoint, m)

\* the drift score of the metric of an anomaly is over its threshold
DriftScoreOver(a) ==
    \/ /\ a.metric_name \in {"avg_latency", "p95_latency"}
       /\ RLess(Rat(6, 10), a.drift_context.latency_drift_score)
    \/ /\ a.metric_name = "error_rate"
       /\ RLess(Rat(5, 10), a.drift_context.error_drift_score)

\* C16: is_sustained_degradation of an anomaly is true when the drift score of
\* its metric exceeds 0.6 (latency) or 0.5 (error_rate), or when the stored
\* history holds 3 consecutive windows over the z-threshold for the metric,
\* however low the drift scores.
C16_SustainedDegradation ==
    \A i \in 1..Len(detected.anomalies) :
      LET a == detected.anomalies[i] IN
      (DriftScoreOver(a) \/ ThreeConsecutiveOver(a.endpoint, a.metric_name))
         => a.drift_context.is_sustained_degradation

\* what the code does: the drift score alone decides
C16_DriftScoreDecides ==
    \A i \in 1..Len(detected.anomalies) :
      detected.anomalies[i].drift_context.is_sustained_degradation
         <=> DriftScoreOver(detected.anomalies[i])

\* an anomaly marked as sustained, and one over three consecutive windows that
\* is not
C16_Sustained ==
    \E i \in 1..Len(detected.anomalies) :
       detected.anomalies[i].drift_context.is_sustained_degradation
C16_Missed ==
    \E i \in 1..Len(detected.anomalies) :
       /\ ThreeConsecutiveOver(detected.anomalies[i].endpoint, detected.anomalies[i].metric_name)
       /\ ~detected.anomalies[i].drift_context.is_sustained_degradation

\* whether one metric of an aggregate meets the anomaly condition for the
\* baseline the latest call read
Qualifies(agg, m) ==
    /\ Judged(agg.endpoint, m)
    /\ \/ Exceeds(agg[m], BaselineBefore(agg.endpoint, m).mean,
                  BaselineBefore(agg.endpoint, m).std_sq, 2, 1)
       \/ Exceeds(agg[m], BaselineBefore(agg.endpoint, m).ewma,
                  BaselineBefore(agg.endpoint, m).ewma_variance, 3, 2)

\* the anomalies of the latest call that carry the value of an aggregate
AnomaliesFor(agg, m) ==
    {i \in AnomaliesOf(agg.endpoint, agg.timestamp, m) :
        detected.anomalies[i].current_value = agg[m]}

\* no (endpoint, window_start, metric_name) appears twice
NoDuplicateAnomaly ==
    \A i, j \in 1..Len(detected.anomalies) :
       (/\ detected.anomalies[i].endpoint = detected.anomalies[j].endpoint
        /\ detected.anomalies[i].window_start = detected.anomalies[j].window_start
        /\ detected.anomalies[i].metric_name = detected.anomalies[j].metric_name) => i = j

\* every qualifying metric of every aggregate passed in has its anomaly
EveryQualifyingWindowReported ==
    \A k \in 1..Len(detected.aggregates) :
      \A j \in 1..Len(metric_names) :
         Qualifies(detected.aggregates[k], metric_names[j])
            => AnomaliesFor(detected.aggregates[k], metric_names[j]) # {}

\* no aggregate window is passed twice: the aggregates of one endpoint differ
\* in window size or in timestamp
WindowsPassedOnce ==
    \A k, l \in 1..Len(detected.aggregates) :
       (/\ detected.aggregates[k].endpoint = detected.aggregates[l].endpoint
        /\ detected.aggregates[k].window = detected.aggregates[l].window
        /\ detected.aggregates[k].timestamp = detected.aggregates[l].timestamp) => k = l

\* C17: detect returns exactly one anomaly per (endpoint, window, metric) that
\* qualifies: every aggregate passed in whose metric meets the anomaly
\* condition yields an anomaly, also when one endpoint has several window
\* sizes with one timestamp, and no (endpoint, window_start, metric_name)
\* appears twice.
C17_OneAnomalyPerWindow ==
    WindowsPassedOnce => (EveryQualifyingWindowReported /\ NoDuplicateAnomaly)

\* the half that holds
C17_NoDuplicate == NoDuplicateAnomaly

\* the same statement for calls whose aggregates of one endpoint have
\* different timestamps
C17_DistinctTimestamps ==
    (\A k, l \in 1..Len(detected.aggregates) :
        (/\ detected.aggregates[k].endpoint = detected.aggregates[l].endpoint
         /\ detected.aggregates[k].timestamp = detected.aggregates[l].timestamp) => k = l)
      => (EveryQualifyingWindowReported /\ NoDuplicateAnomaly)

\* a call with two aggregates of different timestamps, an anomaly for each
C17_TwoWindows ==
    /\ Len(detected.aggregates) = 2
    /\ detected.aggregates[1].timestamp # detected.aggregates[2].timestamp
    /\ \A k \in 1..2 : AnomaliesFor(detected.aggregates[k], "avg_latency") # {}

(***************************************************************************)
(* SpecBaseline: update_baseline calls on an empty baseline store.         *)
(* observed[key] is the sequence of the values the calls gave for the key. *)
(***************************************************************************)
MaxUpdates == 4

BaselineKeys == {BaselineKey("/a", "avg_latency"), BaselineKey("/b", "error_rate")}
UpdateValues == {RInt(0), RInt(2), RInt(5)}
UpdateTimes == {0, 3600}

\* the number of update_baseline calls so far
RECURSIVE TotalLen(_, _)
TotalLen(obs, keys) ==
    IF keys = {} THEN 0
    ELSE LET k == CHOOSE x \in keys : TRUE
         IN Len(obs[k]) + TotalLen(obs, keys \ {k})
Updates == TotalLen(observed, DOMAIN observed)

InitBaseline ==
    /\ baselines = <<>>
    /\ observed = <<>>
    /\ metrics = <<>>
    /\ detected = NoDetect
    /\ now = 0
    /\ recent_alerts = EmptyMap
    /\ last = NoCall
    /\ CorrIdle
    /\ ConcIdle
    /\ AuxIdle

\* store.update_baseline(endpoint, metric_name, new_value, timestamp)
UpdateBaseline ==
    /\ Updates < MaxUpdates
    /\ \E key \in BaselineKeys, new_value \in UpdateValues, timestamp \in UpdateTimes :
         /\ baselines' = update_baseline(baselines, key, new_value, timestamp)
         /\ observed' = Put(observed, key,
                            Append(IF key \in DOMAIN observed THEN observed[key] ELSE <<>>,
                                   new_value))
    /\ UNCHANGED <<metrics, detected, NotDet>>

NextStore == UpdateBaseline

SpecBaseline == InitBaseline /\ [][NextStore]_vars

\* the key the step called update_baseline for, and the value it gave
CalledFor(key) ==
    /\ key \in DOMAIN observed'
    /\ (key \notin DOMAIN observed \/ observed'[key] # observed[key])
GivenValue(key) == observed'[key][Len(observed'[key])]

\* C18: the first update_baseline call of an (endpoint, metric) creates the
\* baseline with count 1, mean = value, std = 0, ewma = value and
\* ewma_variance = 0; every later call adds exactly 1 to count; count never
\* decreases.
C18_CountGrowsByOne ==
    [][\A key \in BaselineKeys :
         /\ (key \in DOMAIN baselines) =>
               /\ key \in DOMAIN baselines'
               /\ baselines'[key].count >= baselines[key].count
         /\ (CalledFor(key) /\ key \notin DOMAIN baselines) =>
               /\ key \in DOMAIN baselines'
               /\ baselines'[key].count = 1
               /\ baselines'[key].mean = GivenValue(key)
               /\ baselines'[key].std_sq = RInt(0)
               /\ baselines'[key].ewma = GivenValue(key)
               /\ baselines'[key].ewma_variance = RInt(0)
         /\ (CalledFor(key) /\ key \in DOMAIN baselines) =>
               baselines'[key].count = baselines[key].count + 1
         /\ (~CalledFor(key) /\ key \in DOMAIN baselines) =>
               baselines'[key].count = baselines[key].count]_vars

\* a key after three calls, next to a key after its first
C18_Witness ==
    \E k1, k2 \in DOMAIN baselines :
       /\ baselines[k1].count = 3 /\ Len(observed[k1]) = 3
       /\ baselines[k2].count = 1 /\ Len(observed[k2]) = 1

\* sum(v_i) / N of the values given for a key
MeanOf(values) == RDiv(RSum(values), RInt(Len(values)))

\* C19: after N update_baseline calls with values v_1..v_N on a fresh
\* (endpoint, metric), the stored mean is sum(v_i) / N.
C19_MeanIsAverage ==
    /\ DOMAIN baselines = DOMAIN observed
    /\ \A key \in DOMAIN baselines : baselines[key].mean = MeanOf(observed[key])

\* three values whose average is not a whole number
C19_Witness ==
    \E key \in DOMAIN baselines :
       /\ Len(observed[key]) = 3
       /\ baselines[key].mean.d = 3
       /\ observed[key][1] # observed[key][2]

\* sum((v_i - mean) ** 2) / N
PopulationVariance(values) ==
    RDiv(RSum([i \in 1..Len(values) |-> RSq(RSub(values[i], MeanOf(values)))]),
         RInt(Len(values)))

\* C20: after N >= 2 update_baseline calls with values v_1..v_N on a fresh
\* (endpoint, metric), the stored std is the population standard deviation of
\* the values: std ** 2 = sum((v_i - mean) ** 2) / N.
C20_StdIsPopulationStd ==
    \A key \in DOMAIN baselines :
       Len(observed[key]) >= 2
          => baselines[key].std_sq = PopulationVariance(observed[key])

\* where the stored std does equal the population std: all values equal
C20_EqualValues ==
    \A key \in DOMAIN baselines :
       (\A i \in 1..Len(observed[key]) : observed[key][i] = observed[key][1])
          => baselines[key].std_sq = PopulationVariance(observed[key])

\* the stored std is never below the population std
C20_NeverBelow ==
    \A key \in DOMAIN baselines :
       RLeq(PopulationVariance(observed[key]), baselines[key].std_sq)

(***************************************************************************)
(* More claims on Spec.                                                    *)
(***************************************************************************)
\* the call passed both suppression checks
Routed == Called /\ last.outcome = "routed"

\* C27: a candidate that passes dedup and cooldown but is rejected by the
\* console channel (process_alert returns false) leaves the last alert time
\* of its key unchanged, so a failed delivery starts no suppression period.
C27_FailedDeliveryUntracked ==
    (Routed /\ ~last.returned) => last.recent_after = last.recent_before

\* what the code does: every call that passes both checks sets the time of its
\* key to the time of the call, delivered or not
C27_TrackedWheneverRouted ==
    Routed => /\ last.key \in DOMAIN last.recent_after
              /\ last.recent_after[last.key] = last.time

\* the call was for a key with no recorded alert
FreshKey == Called /\ last.key \notin DOMAIN last.recent_before

\* C28: a candidate for a key that has no recorded alert (a fresh
\* AlertManager, or after clear_cooldowns) is never dropped by dedup or
\* cooldown, whatever the clock value.
C28_FreshKeyNeverDropped ==
    FreshKey => last.outcome = "routed"

\* the same statement for clock values of at least the cooldown of the
\* severity (and so at least the dedup window)
C28_FreshKeyLateClock ==
    (FreshKey /\ last.time >= CooldownOf(last.alert.severity)
              /\ last.time >= ALERT_DEDUP_WINDOW) => last.outcome = "routed"

\* a fresh key dropped as a duplicate
C28_FreshKeyDeduplicated == FreshKey /\ last.reason = "dedup"

\* the severity of the call is none of INFO, WARN, CRITICAL
UnknownSeverity == Called /\ last.alert.severity \notin {"INFO", "WARN", "CRITICAL"}

\* C29: for a candidate whose severity is not INFO, WARN or CRITICAL (the
\* HIGH and MEDIUM of correlate), process_alert applies the INFO cooldown of
\* 3600 s and routes to the console only: nothing goes to Slack or email.
C29_UnknownSeverityAsInfo ==
    UnknownSeverity =>
      /\ (Tracked /\ Since < 3600) => last.outcome = "dropped"
      /\ (Tracked /\ Since >= 3600) => last.outcome = "routed"
      /\ last.outcome = "routed" =>
           /\ last.route.console = 1
           /\ last.route.slack = 0 /\ last.route.email = 0
           /\ last.route.slack_requests = 0 /\ last.route.email_requests = 0

\* a HIGH candidate dropped by the cooldown 1800 s after the last HIGH alert
\* of its endpoint, past the dedup window and the WARN and CRITICAL cooldowns
C29_Witness ==
    /\ UnknownSeverity
    /\ last.alert.severity = "HIGH"
    /\ Tracked
    /\ Since = 1800
    /\ last.reason = "cooldown"

(***************************************************************************)
(* The lock of the Alert Manager, on SpecConc.  A thread at "route" is     *)
(* about to write to the Alert Store and to send to the channels.          *)
(***************************************************************************)
\* C25: in every execution of process_alert the Alert Store write and the
\* channel sends happen while the thread does not hold AlertManager._lock;
\* the lock, the only one process_alert takes, is held only around the write
\* of _recent_alerts.
C25_NoLockDuringIO ==
    \A t \in Threads :
       /\ pc[t] = "route" => lock_owner # t
       /\ lock_owner = t => pc[t] \in {"track", "unlock"}

\* one thread is about to store and route while the other holds the lock
C25_Witness ==
    \E t, u \in Threads :
       /\ t # u
       /\ pc[t] = "route"
       /\ lock_owner = u
       /\ pc[u] = "track"

(***************************************************************************)
(* The order of reading and updating the baselines in detect, on           *)
(* SpecDetect.                                                             *)
(***************************************************************************)
\* the windows of the latest call for an endpoint
WindowsOf(endpoint) ==
    {i \in 1..Len(detected.current_metrics) :
        detected.current_metrics[i].endpoint = endpoint}

\* count of a key in a store, 0 when it has none
CountIn(store, key) == IF key \in DOMAIN store THEN store[key].count ELSE 0

\* the keys the latest call observed
ObservedKeys ==
    {BaselineKey(detected.current_metrics[i].endpoint, metric_names[j]) :
        i \in 1..Len(detected.current_metrics), j \in 1..Len(metric_names)}

\* C30: within one detect call every window is judged against the baselines
\* as they were before the call (the anomaly carries their mean and ewma, and
\* is emitted exactly when the value is anomalous for them), and the call
\* then advances the count of every observed (endpoint, metric) baseline by
\* one per distinct window.
C30_JudgedBeforeUpdate ==
    detected.called =>
      /\ \A i \in 1..Len(detected.anomalies) :
           LET a == detected.anomalies[i] IN
           /\ Judged(a.endpoint, a.metric_name)
           /\ a.baseline_value = BaselineBefore(a.endpoint, a.metric_name).mean
           /\ a.ewma_value = BaselineBefore(a.endpoint, a.metric_name).ewma
           /\ Qualifies([endpoint |-> a.endpoint, avg_latency |-> a.current_value,
                         p95_latency |-> a.current_value, error_rate |-> a.current_value],
                        a.metric_name)
      /\ \A key \in ObservedKeys :
           CountIn(baselines, key)
             = CountIn(detected.baselines_before, key) + Cardinality(WindowsOf(key[1]))
      /\ \A key \in DOMAIN baselines \ ObservedKeys :
           /\ key \in DOMAIN detected.baselines_before
           /\ baselines[key] = detected.baselines_before[key]

\* a call with two windows: an anomaly judged against a baseline whose mean
\* the call then moved, and whose count it advanced by two
C30_Witness ==
    /\ detected.called
    /\ \E i \in 1..Len(detected.anomalies) :
         LET a == detected.anomalies[i]
             key == AnomalyKey(a)
         IN /\ Cardinality(WindowsOf(a.endpoint)) = 2
            /\ baselines[key].mean # detected.baselines_before[key].mean
            /\ a.baseline_value = detected.baselines_before[key].mean
            /\ baselines[key].count = detected.baselines_before[key].count + 2


(***************************************************************************)
(* SpecRetention: update_baseline and clear_old_data on a baseline store   *)
(* of either backend, while the clock advances by months.  Every update is *)
(* made with the time of the call, as SQLiteBaselineStorage.store_baseline *)
(* writes datetime.now() to last_updated.                                  *)
(***************************************************************************)
SECONDS_PER_DAY == 86400
Backends == {"memory", "sqlite"}
RetentionDays == {30, 90}
RetentionTimes == {0, 60 * SECONDS_PER_DAY, 200 * SECONDS_PER_DAY}

\* the store restricted to the keys that in kept
Restrict(store, kept) == [k \in kept |-> store[k]]

\* variant: a stale baseline stays in the store with its count set back to zero
clear_old_data_Reset(bk, store, clock, days_to_keep) ==
    LET cutoff == clock - days_to_keep * SECONDS_PER_DAY
    IN IF bk = "memory" THEN store
       ELSE [k \in DOMAIN store |->
               IF store[k].last_updated < cutoff
                 THEN [store[k] EXCEPT !.count = 0]
                 ELSE store[k]]

\* clear_old_data(days_to_keep): the store after it.  The in-memory backend
\* returns 0 and touches nothing; the SQLite backend runs
\* DELETE FROM baselines WHERE last_updated < cutoff
clear_old_data(bk, store, clock, days_to_keep) ==
    LET cutoff == clock - days_to_keep * SECONDS_PER_DAY
    IN IF bk = "memory" THEN store
       ELSE Restrict(store, {k \in DOMAIN store : ~(store[k].last_updated < cutoff)})

InitRetention ==
    /\ backend \in Backends
    /\ raw_logs = <<>>
    /\ aggregated = NoAggregation
    /\ alert_rows = <<>>
    /\ stored = NoStoreCall
    /\ baselines = <<>>
    /\ observed = <<>>
    /\ metrics = <<>>
    /\ detected = NoDetect
    /\ AmIdle
    /\ CorrIdle
    /\ ConcIdle

\* store.update_baseline(endpoint, metric_name, new_value, datetime.now())
UpdateNow ==
    /\ Updates < MaxUpdates
    /\ \E key \in BaselineKeys, new_value \in UpdateValues :
         /\ baselines' = update_baseline(baselines, key, new_value, now)
         /\ observed' = Put(observed, key,
                            Append(IF key \in DOMAIN observed THEN observed[key] ELSE <<>>,
                                   new_value))
    /\ UNCHANGED <<metrics, detected, NotDet>>

\* time passes
Months ==
    /\ \E t \in RetentionTimes : t > now /\ now' = t
    /\ UNCHANGED <<recent_alerts, last, corrVars, concVars, detVars, auxVars>>

\* store.clear_old_data(days_to_keep)
ClearOldData ==
    /\ \E days_to_keep \in RetentionDays :
         baselines' = clear_old_data(backend, baselines, now, days_to_keep)
    /\ UNCHANGED <<observed, metrics, detected, NotDet>>

NextRetention == UpdateNow \/ Months \/ ClearOldData

SpecRetention == InitRetention /\ [][NextRetention]_vars

\* C21: a step that is neither an update nor the passing of time, that is a
\* clear_old_data call, leaves every baseline that is still in the store
\* exactly as it was (count, statistics and last_updated): a baseline is
\* deleted or kept, never reset.
C21_PruningDeletesOrKeeps ==
    [][(observed' = observed /\ now' = now)
         => \A k \in DOMAIN baselines' :
              k \in DOMAIN baselines /\ baselines'[k] = baselines[k]]_vars

\* the SQLite backend after a pruning that deleted the stale baseline of one
\* key and kept the baseline of the other, which has several observations
C21_Witness ==
    /\ backend = "sqlite"
    /\ \E gone \in DOMAIN observed, kept \in DOMAIN baselines :
         /\ gone \notin DOMAIN baselines
         /\ baselines[kept].count >= 2
         /\ baselines[kept].count = Len(observed[kept])

\* the in-memory backend keeps a baseline that is older than every retention
\* period, with the count of its observations
C21_MemoryKeepsStale ==
    /\ backend = "memory"
    /\ \E k \in DOMAIN baselines :
         /\ baselines[k].last_updated < now - 90 * SECONDS_PER_DAY
         /\ baselines[k].count = Len(observed[k])
         /\ baselines[k].count >= 2


(***************************************************************************)
(* The aggregator: compute_aggregates (aggregator.py) and aggregate_logs   *)
(* (aggregator_old.py).  A timestamp is an instant in seconds, a latency   *)
(* and a response size are integers, a mean or a rate is a rational.       *)
(***************************************************************************)
WINDOWS_MIN == <<1, 5, 15>>
SECONDS_PER_MINUTE == 60
QUANTILE_95 == Rat(95, 100)

LogRecord(endpoint, timestamp, status_code, latency_ms, response_size) ==
    [endpoint |-> endpoint, timestamp |-> timestamp, status_code |-> status_code,
     latency_ms |-> latency_ms, response_size |-> response_size]

\* f'{w}m'
WindowLabel(w) ==
    CASE w = 1 -> "1m"
      [] w = 5 -> "5m"
      [] w = 15 -> "15m"

\* sorted(values): the k-th element is the value with fewer than k elements
\* below it and at least k elements not above it
SortInts(values) ==
    LET idx == 1..Len(values)
    IN [k \in idx |->
          CHOOSE v \in {values[i] : i \in idx} :
             /\ Cardinality({i \in idx : values[i] < v}) < k
             /\ k <= Cardinality({i \in idx : values[i] <= v})]

\* g[field] as a sequence of integers
Column(g, field) == [i \in 1..Len(g) |-> g[i][field]]

\* sum(values) of integers
RECURSIVE SumFrom(_, _)
SumFrom(values, i) == IF i > Len(values) THEN 0 ELSE values[i] + SumFrom(values, i + 1)
SumInts(values) == SumFrom(values, 1)

\* sum(values) / len(values)
IntMean(values) == Rat(SumInts(values), Len(values))

\* sum((x - mean) ** 2 for x in values) / len(values), as one fraction:
\* (n * sum(x ** 2) - sum(x) ** 2) / n ** 2
IntVariance(values) ==
    LET n == Len(values)
        total == SumInts(values)
        squares == SumInts([i \in 1..n |-> values[i] * values[i]])
    IN Rat(n * squares - total * total, n * n)

\* the number of records of g that satisfy the test on the status code
CountStatus(g, at_least) == Len(SelectSeq(g, LAMBDA r : r.status_code >= at_least))

\* the endpoints of a set in the order of their names
RECURSIVE SortedEndpoints(_)
SortedEndpoints(endpoints) ==
    IF endpoints = {} THEN <<>>
    ELSE LET e == CHOOSE x \in endpoints : \A y \in endpoints \ {x} : StrRank(x) < StrRank(y)
         IN <<e>> \o SortedEndpoints(endpoints \ {e})

\* the endpoints of the records, as groupby orders them
EndpointsOf(df) == SortedEndpoints({df[i].endpoint : i \in 1..Len(df)})

\* round(x, 2) of Python 3
Round2(x) == Rat(RoundInt(RMul(x, RInt(100))), 100)

\* Series.quantile(q) of pandas: linear interpolation between the two order
\* statistics around the position (n - 1) * q
quantile(values, q) ==
    LET s == SortInts(values)
        n == Len(s)
        h == RMul(RInt(n - 1), q)
        lo == h.n \div h.d
    IN IF lo + 1 >= n THEN RInt(s[n])
       ELSE RAdd(RInt(s[lo + 1]), RMul(RSub(h, RInt(lo)), RInt(s[lo + 2] - s[lo + 1])))

\* variant: the window keeps every record, whatever its age
WindowFrame_NoEviction(df, window_start) == df

\* df[df['timestamp'] >= window_start]
WindowFrame(df, window_start) == SelectSeq(df, LAMBDA r : r.timestamp >= window_start)

\* the rec dict of one endpoint group g of the window of w minutes
GroupAggregate(endpoint, w, g, clock) ==
    [endpoint |-> endpoint,
     window |-> WindowLabel(w),
     avg_latency |-> IntMean(Column(g, "latency_ms")),
     p95_latency |-> quantile(Column(g, "latency_ms"), QUANTILE_95),
     error_rate |-> Rat(CountStatus(g, 500), Len(g)),
     request_volume |-> Len(g),
     response_var |-> IF Len(g) > 1 THEN IntVariance(Column(g, "response_size"))
                      ELSE RInt(0),
     timestamp |-> clock,
     logs |-> g]

\* the recs of the window frame df_w, one for each endpoint in it
GroupAggregates(df_w, endpoints, w, clock) ==
    [i \in 1..Len(endpoints) |->
       GroupAggregate(endpoints[i], w, SelectSeq(df_w, LAMBDA r : r.endpoint = endpoints[i]),
                      clock)]
FrameAggregates(df_w, w, clock) == GroupAggregates(df_w, EndpointsOf(df_w), w, clock)

\* the recs of the window of w minutes
WindowAggregates(df, w, clock) ==
    FrameAggregates(WindowFrame(df, clock - w * SECONDS_PER_MINUTE), w, clock)

RECURSIVE AggregatesFrom(_, _, _)
AggregatesFrom(df, i, clock) ==
    IF i > Len(WINDOWS_MIN) THEN <<>>
    ELSE WindowAggregates(df, WINDOWS_MIN[i], clock) \o AggregatesFrom(df, i + 1, clock)

\* compute_aggregates(now): the list it returns
compute_aggregates(df, clock) == IF df = <<>> THEN <<>> ELSE AggregatesFrom(df, 1, clock)

\* persist_aggregates_to_db(results): INSERT OR REPLACE of one row for each
\* aggregate, unique on (endpoint, window_minutes, window_end)
RECURSIVE PersistFrom(_, _, _)
PersistFrom(db, results, i) ==
    IF i > Len(results) THEN db
    ELSE LET agg == results[i]
             row == [avg_latency |-> agg.avg_latency, p95_latency |-> agg.p95_latency,
                     error_rate |-> agg.error_rate, request_volume |-> agg.request_volume,
                     response_size_variance |-> agg.response_var]
         IN PersistFrom(Put(db, <<agg.endpoint, WindowMinutes(agg.window), agg.timestamp>>,
                            row),
                        results, i + 1)
persist_aggregates_to_db(db, results) == PersistFrom(db, results, 1)

(***************************************************************************)
(* aggregator_old.py                                                       *)
(***************************************************************************)
NoWindow == -1

\* _parse_log_entry gives None for a latency below zero
Parses(log) == log.latency_ms >= 0

\* _parse_log_entry(log) of a log that parses
parse_log_entry(log) ==
    [endpoint |-> log.endpoint, timestamp |-> log.timestamp,
     status_code |-> log.status_code, latency_ms |-> log.latency_ms,
     response_size |-> log.response_size, is_error |-> log.status_code >= 400]

\* variant: a log of any age is in the window
get_window_start_NoEviction(timestamp, window_minutes, current_time) ==
    LET minutes_since_epoch == timestamp \div SECONDS_PER_MINUTE
    IN (minutes_since_epoch \div window_minutes) * window_minutes * SECONDS_PER_MINUTE

\* _get_window_start(timestamp, window_minutes, current_time): NoWindow for
\* None.  time_diff is in minutes, so the tests are taken times sixty.
get_window_start(timestamp, window_minutes, current_time) ==
    LET time_diff_seconds == current_time - timestamp
        minutes_since_epoch == timestamp \div SECONDS_PER_MINUTE
    IN IF time_diff_seconds < 0
          \/ time_diff_seconds >= window_minutes * SECONDS_PER_MINUTE
         THEN NoWindow
         ELSE (minutes_since_epoch \div window_minutes) * window_minutes
                * SECONDS_PER_MINUTE

\* _group_by_windows(logs, current_time): the logs of each (endpoint, window)
InGroup(log, key, current_time) ==
    /\ log.endpoint = key[1]
    /\ get_window_start(log.timestamp, WindowMinutes(key[2]), current_time) # NoWindow
group_by_windows(logs, current_time) ==
    LET keys == {key \in {<<logs[i].endpoint, WindowLabel(WINDOWS_MIN[j])>> :
                            i \in 1..Len(logs), j \in 1..Len(WINDOWS_MIN)} :
                   \E i \in 1..Len(logs) : InGroup(logs[i], key, current_time)}
    IN [key \in keys |-> SelectSeq(logs, LAMBDA log : InGroup(log, key, current_time))]

\* the largest element of a sequence of integers
MaxOf(values) == CHOOSE v \in {values[i] : i \in 1..Len(values)} :
                    \A i \in 1..Len(values) : values[i] <= v
MinOf(values) == CHOOSE v \in {values[i] : i \in 1..Len(values)} :
                    \A i \in 1..Len(values) : v <= values[i]

\* _infer_window_minutes(logs)
infer_window_minutes(logs) ==
    LET span == MaxOf(Column(logs, "timestamp")) - MinOf(Column(logs, "timestamp"))
    IN IF Len(logs) < 2 THEN 1
       ELSE IF span <= 1 * SECONDS_PER_MINUTE THEN 1
       ELSE IF span <= 5 * SECONDS_PER_MINUTE THEN 5
       ELSE 15

\* _compute_metrics(logs) of a group that is not empty
MetricsFrom(logs, sorted_latencies, n) ==
    LET p95_index == (n * 95) \div 100
        error_count == Len(SelectSeq(logs, LAMBDA log : log.is_error))
    IN [endpoint |-> logs[1].endpoint,
        window |-> WindowLabel(infer_window_minutes(logs)),
        avg_latency |-> Round2(IntMean(Column(logs, "latency_ms"))),
        p95_latency |-> Round2(RInt(sorted_latencies[(IF p95_index < n - 1 THEN p95_index
                                                       ELSE n - 1) + 1])),
        error_rate |-> Round4(Rat(error_count, n)),
        request_volume |-> n,
        response_size_variance |->
            IF n > 1 THEN Round2(IntVariance(Column(logs, "response_size")))
            ELSE RInt(0),
        timestamp |-> MaxOf(Column(logs, "timestamp")),
        sample_count |-> n,
        logs |-> logs]
compute_metrics(logs) == MetricsFrom(logs, SortInts(Column(logs, "latency_ms")), Len(logs))

\* aggregate_logs(raw_logs, current_time): the dict it returns, by
\* (endpoint, window) for the key f"{endpoint}:{window}"
AggregatedFrom(windowed_logs) ==
    [key \in DOMAIN windowed_logs |-> compute_metrics(windowed_logs[key])]
ParsedLogs(parsed) == [i \in 1..Len(parsed) |-> parse_log_entry(parsed[i])]
aggregate_logs(logs, current_time) ==
    AggregatedFrom(group_by_windows(ParsedLogs(SelectSeq(logs, Parses)), current_time))

(***************************************************************************)
(* SpecAgg: log records arrive in any order and the two aggregators are    *)
(* called at one of two evaluation times.  The log starts empty or with a  *)
(* burst of twenty requests of one endpoint.                               *)
(***************************************************************************)
MaxLogs == 2

AggTimes == {1000, 1200}

\* at 1000 the ages are 10, 60 (the width of the 1m window), 200, 800 and 950
\* seconds; one record is 100 seconds ahead of 1000; one has no valid latency
LogPool ==
    {LogRecord("/a", 990, 200, 100, 10),
     LogRecord("/a", 940, 404, 0, 10),
     LogRecord("/a", 800, 500, 300, 20),
     LogRecord("/b", 200, 404, 50, 0),
     LogRecord("/a", 50, 200, 40, 0),
     LogRecord("/b", 1100, 200, 20, 0),
     LogRecord("/a", 995, 200, -1, 0)}

Burst == [i \in 1..20 |-> LogRecord("/a", 990, 200, i, 0)]

InitAgg ==
    /\ raw_logs \in {<<>>, Burst}
    /\ aggregated = NoAggregation
    /\ backend = "memory"
    /\ alert_rows = <<>>
    /\ stored = NoStoreCall
    /\ AmIdle
    /\ CorrIdle
    /\ ConcIdle
    /\ DetIdle

NotAgg == <<backend, alert_rows, stored, amVars, corrVars, concVars, detVars>>

\* the ingestion appends one record to the raw log
Record ==
    /\ Len(raw_logs) < MaxLogs
    /\ \E r \in LogPool : raw_logs' = Append(raw_logs, r)
    /\ UNCHANGED <<aggregated, NotAgg>>

\* compute_aggregates(now): the list is returned and, if it is not empty,
\* written to the aggregates table
ComputeStep(clock, results) ==
    /\ aggregated' = [called |-> "compute_aggregates", now |-> clock, raw_logs |-> raw_logs,
                      results |-> results,
                      db |-> IF results = <<>> THEN aggregated.db
                             ELSE persist_aggregates_to_db(aggregated.db, results)]
    /\ UNCHANGED <<raw_logs, NotAgg>>
ComputeAggregates == \E clock \in AggTimes : ComputeStep(clock, compute_aggregates(raw_logs, clock))

\* aggregate_logs(raw_logs, current_time)
AggregateLogs ==
    \E current_time \in AggTimes :
       /\ aggregated' = [called |-> "aggregate_logs", now |-> current_time,
                         raw_logs |-> raw_logs,
                         results |-> IF raw_logs = <<>> THEN <<>>
                                     ELSE aggregate_logs(raw_logs, current_time),
                         db |-> aggregated.db]
       /\ UNCHANGED <<raw_logs, NotAgg>>

NextAgg == Record \/ ComputeAggregates \/ AggregateLogs

SpecAgg == InitAgg /\ [][NextAgg]_vars

\* the aggregates of the last call, each with the width in minutes of the
\* window it was computed for (the key of the dict of aggregate_logs)
ByCompute == aggregated.called = "compute_aggregates"
ByAggregateLogs == aggregated.called = "aggregate_logs"
WindowAggregatesOfCall ==
    IF ByCompute
      THEN {<<WindowMinutes(aggregated.results[i].window), aggregated.results[i]>> :
              i \in 1..Len(aggregated.results)}
    ELSE IF ByAggregateLogs
      THEN {<<WindowMinutes(key[2]), aggregated.results[key]>> : key \in DOMAIN aggregated.results}
    ELSE {}

AgeAtCall(r) == aggregated.now - r.timestamp

\* C22: in both aggregators, every record that contributes to the aggregate of
\* a window of W minutes is at most W minutes old at the evaluation time,
\* whatever the order in which the records arrived.
C22_EvictionCorrect ==
    \A x \in WindowAggregatesOfCall :
       \A i \in 1..Len(x[2].logs) : AgeAtCall(x[2].logs[i]) <= x[1] * SECONDS_PER_MINUTE

\* a call on records that arrived out of order, one of them older than the
\* widest window and another inside the narrowest one
OutOfOrder(logs) == \E i, j \in 1..Len(logs) : i < j /\ logs[i].timestamp > logs[j].timestamp
C22_Witness ==
    /\ ByCompute
    /\ OutOfOrder(aggregated.raw_logs)
    /\ \E i \in 1..Len(aggregated.raw_logs) :
          AgeAtCall(aggregated.raw_logs[i]) > 15 * SECONDS_PER_MINUTE
    /\ \E x \in WindowAggregatesOfCall : x[1] = 1

\* the same for aggregate_logs
C22_WitnessOld ==
    /\ ByAggregateLogs
    /\ OutOfOrder(aggregated.raw_logs)
    /\ \E i \in 1..Len(aggregated.raw_logs) :
          AgeAtCall(aggregated.raw_logs[i]) > 15 * SECONDS_PER_MINUTE
    /\ \E x \in WindowAggregatesOfCall : x[1] = 1

\* aggregate_logs only: the same bound with the width that the aggregate
\* names in its own 'window' field, which _infer_window_minutes takes from
\* the span of the timestamps
C22_InferredLabel ==
    ByAggregateLogs
      => \A x \in WindowAggregatesOfCall :
            \A i \in 1..Len(x[2].logs) :
               AgeAtCall(x[2].logs[i]) <= WindowMinutes(x[2].window) * SECONDS_PER_MINUTE

\* sorted[ceil(p * n) - 1] with the rank ceil(p * n) clamped to 1..n
NearestRank(values, p) ==
    LET s == SortInts(values)
        n == Len(s)
        pn == RMul(p, RInt(n))
        ceil == IF pn.n % pn.d = 0 THEN pn.n \div pn.d ELSE (pn.n \div pn.d) + 1
        rank == IF ceil < 1 THEN 1 ELSE IF ceil > n THEN n ELSE ceil
    IN s[rank]

\* C23: the p95_latency of every aggregate is the nearest-rank value
\* sorted[ceil(0.95 * n) - 1] of the latencies of its n records.
C23_P95NearestRank ==
    \A x \in WindowAggregatesOfCall :
       x[2].p95_latency = RInt(NearestRank(Column(x[2].logs, "latency_ms"), QUANTILE_95))

\* the same for the aggregates of aggregate_logs only
C23_OldP95NearestRank == ByAggregateLogs => C23_P95NearestRank

\* aggregate_logs gives the nearest-rank value when 0.95 * n is no integer
C23_OldOffMultiplesOfTwenty ==
    ByAggregateLogs
      => \A x \in WindowAggregatesOfCall :
            Len(x[2].logs) % 20 # 0
              => x[2].p95_latency
                   = RInt(NearestRank(Column(x[2].logs, "latency_ms"), QUANTILE_95))

\* the fraction of the records with a status code of at least the given one
ErrorFraction(logs, at_least) == Rat(CountStatus(logs, at_least), Len(logs))

\* C24: the error_rate of every aggregate is the fraction of its records
\* with a status code >= 400.
C24_ErrorRateCountsClientErrors ==
    \A x \in WindowAggregatesOfCall : x[2].error_rate = ErrorFraction(x[2].logs, 400)

\* compute_aggregates reports the fraction of the records with status >= 500
C24_ComputeCountsServerErrors ==
    ByCompute
      => \A x \in WindowAggregatesOfCall : x[2].error_rate = ErrorFraction(x[2].logs, 500)

\* aggregate_logs reports the fraction with status >= 400, rounded to four
\* decimals
C24_OldCountsClientErrors ==
    ByAggregateLogs
      => \A x \in WindowAggregatesOfCall :
            x[2].error_rate = Round4(ErrorFraction(x[2].logs, 400))


(***************************************************************************)
(* The alert store: InMemoryAlertStorage and SQLiteAlertStorage.           *)
(* An alert is a record of the keys endpoint, severity, window,            *)
(* explanation, id and status; Absent stands for a key the dict does not   *)
(* have.                                                                   *)
(***************************************************************************)
Absent == "<absent>"
MAX_RECORDS == 1000

AlertDict(endpoint, severity, window, explanation, id, status) ==
    [endpoint |-> endpoint, severity |-> severity, window |-> window,
     explanation |-> explanation, id |-> id, status |-> status]

\* the first position of a row with the smallest created_at
OldestIndex(rows) ==
    CHOOSE i \in 1..Len(rows) :
       /\ \A j \in 1..Len(rows) : rows[i].alert.created_at <= rows[j].alert.created_at
       /\ \A j \in 1..(i - 1) : rows[j].alert.created_at # rows[i].alert.created_at

\* del self._alerts[...] for the first excess rows of the rows sorted by
\* created_at
RECURSIVE RemoveOldest(_, _)
RemoveOldest(rows, excess) ==
    IF excess <= 0 THEN rows
    ELSE LET k == OldestIndex(rows)
         IN RemoveOldest([i \in 1..(Len(rows) - 1) |-> IF i < k THEN rows[i] ELSE rows[i + 1]],
                         excess - 1)

\* variant: an alert that brings an id keeps it in the stored copy
StoredCopy_KeepsOwnId(alert, alert_id, clock) ==
    [endpoint |-> alert.endpoint, severity |-> alert.severity, window |-> alert.window,
     explanation |-> alert.explanation,
     id |-> IF alert.id = Absent THEN alert_id ELSE alert.id,
     status |-> IF alert.status = Absent THEN "active" ELSE alert.status,
     created_at |-> clock]

\* alert.copy() with id, created_at and status set
StoredCopy(alert, alert_id, clock) ==
    [endpoint |-> alert.endpoint, severity |-> alert.severity, window |-> alert.window,
     explanation |-> alert.explanation, id |-> alert_id,
     status |-> IF alert.status = Absent THEN "active" ELSE alert.status,
     created_at |-> clock]

\* the row that INSERT INTO alerts writes, as _row_to_dict reads it: the
\* status and created_at are the defaults of the table
StoredRow(alert, alert_id, clock) ==
    [endpoint |-> alert.endpoint, severity |-> alert.severity, window |-> alert.window,
     explanation |-> alert.explanation, id |-> alert_id, status |-> "active",
     created_at |-> clock]

\* alert['endpoint'], alert['severity'], alert['window'] or
\* alert['explanation'] raises KeyError
MissingColumn(alert) ==
    Absent \in {alert.endpoint, alert.severity, alert.window, alert.explanation}

\* store_alert(alert) with uuid4() = alert_id: whether it raised, and the
\* rows after it
store_alert(bk, rows, alert, alert_id, clock) ==
    IF bk = "memory"
      THEN LET added == Append(rows, [key |-> alert_id,
                                      alert |-> StoredCopy(alert, alert_id, clock)])
           IN [raised |-> FALSE,
               rows |-> IF Len(added) > MAX_RECORDS
                          THEN RemoveOldest(added, Len(added) - MAX_RECORDS)
                          ELSE added]
    ELSE IF MissingColumn(alert) THEN [raised |-> TRUE, rows |-> rows]
    ELSE [raised |-> FALSE,
          rows |-> Append(rows, [key |-> alert_id,
                                 alert |-> StoredRow(alert, alert_id, clock)])]

\* get_alert(alert_id): self._alerts.get(alert_id), or the row of
\* SELECT * FROM alerts WHERE id = ?
get_alert(bk, rows, alert_id) ==
    {rows[i].alert : i \in {j \in 1..Len(rows) : rows[j].key = alert_id}}

(***************************************************************************)
(* SpecStore: store_alert and get_alert on an alert store of either        *)
(* backend.  uuid4() gives an id that was not given before.                *)
(***************************************************************************)
MaxStored == 2

Uuids == {"u1", "u2", "u3"}
StoreTimes == {0, 1}

\* two alerts with every column, one of them with an id and a status of its
\* own, and a candidate as correlate makes it (no window, no explanation)
AlertInputs ==
    {AlertDict("/a", "CRITICAL", "5m", "latency up", Absent, Absent),
     AlertDict("/b", "WARN", "1m", "errors up", "own-id", "resolved"),
     AlertDict("/a", "WARN", Absent, Absent, Absent, Absent)}

InitStore ==
    /\ backend \in Backends
    /\ alert_rows = <<>>
    /\ stored = NoStoreCall
    /\ raw_logs = <<>>
    /\ aggregated = NoAggregation
    /\ AmIdle
    /\ CorrIdle
    /\ ConcIdle
    /\ DetIdle

NotStore == <<backend, raw_logs, aggregated, recent_alerts, last, corrVars, concVars, detVars>>

\* store.store_alert(alert)
StoreStep(alert, alert_id, out) ==
    /\ alert_rows' = out.rows
    /\ stored' = [op |-> "store", id |-> IF out.raised THEN "" ELSE alert_id,
                  alert |-> {alert}, result |-> {}, raised |-> out.raised,
                  before |-> DOMAIN stored.issued,
                  issued |-> IF out.raised THEN stored.issued
                             ELSE Put(stored.issued, alert_id, alert)]
    /\ UNCHANGED <<now, NotStore>>
StoreAlert ==
    /\ Cardinality(DOMAIN stored.issued) < MaxStored
    /\ \E alert \in AlertInputs, alert_id \in Uuids \ DOMAIN stored.issued :
          StoreStep(alert, alert_id, store_alert(backend, alert_rows, alert, alert_id, now))

\* store.get_alert(alert_id)
GetAlert ==
    /\ \E alert_id \in Uuids :
          stored' = [stored EXCEPT !.op = "get", !.id = alert_id, !.alert = {},
                                   !.result = get_alert(backend, alert_rows, alert_id),
                                   !.raised = FALSE]
    /\ UNCHANGED <<alert_rows, now, NotStore>>

\* time passes
Later ==
    /\ \E t \in StoreTimes : t > now /\ now' = t
    /\ UNCHANGED <<alert_rows, stored, NotStore>>

NextStoreAlerts == StoreAlert \/ GetAlert \/ Later

SpecStore == InitStore /\ [][NextStoreAlerts]_vars

StoreReturned == stored.op = "store" /\ ~stored.raised
GetReturned == stored.op = "get"

\* the alert has the id, and the endpoint and the severity of the given one
SameAlert(got, alert_id, given) ==
    /\ got.id = alert_id
    /\ got.endpoint = given.endpoint
    /\ got.severity = given.severity

C26_UnknownId ==
    /\ GetReturned
    /\ alert_rows # <<>>
    /\ stored.id \notin DOMAIN stored.issued
    /\ stored.result = {}

\* the SQLite backend raises for an alert without 'window' and stores nothing
C26_MissingColumnRaises ==
    /\ backend = "sqlite"
    /\ stored.op = "store"
    /\ stored.raised
    /\ \A alert \in stored.alert : alert.window = Absent

====
